---- MODULE Spec2Model ----
(***************************************************************************)
(* A model of the connection engine of libmicrohttpd.                      *)
(*                                                                         *)
(* Part 1 (specification Spec): the secure (TLS) connection handlers of    *)
(* src/daemon/connection_https.c, translated statement by statement:       *)
(* connection_close_error, MHDS_connection_handle_idle,                    *)
(* MHDS_connection_handle_read and MHDS_connection_handle_write, driven by *)
(* a peer that sends TLS records in any order, a clock, and an event loop  *)
(* that may invoke the three handlers in any order.                        *)
(***************************************************************************)
EXTENDS Integers, Sequences, FiniteSets, TLC

\* ------------------------------------------------------------------ bounds
\* Most TLS records that may be pending, unread, on the socket.
MaxQueue == 1
\* The clock runs from 0 to MaxTime seconds.
MaxTime == 2
\* The daemon's connection timeout is chosen in 0..MaxTimeout seconds.
MaxTimeout == 1
\* Requests a client sends on one connection.
MaxRequests == 2
\* Body bytes of a request that has a body.
MaxReqBody == 1
\* Body pieces of a response.
MaxRespBody == 1

\* --------------------------------------------------------- program constants
MHD_YES == 1
MHD_NO == 0
MHD_HTTP_OK == 200
MHD_HTTP_NOT_FOUND == 404
\* content_type_t, the first byte of a TLS record
GNUTLS_CHANGE_CIPHER_SPEC == 20
GNUTLS_ALERT == 21
GNUTLS_HANDSHAKE == 22
GNUTLS_APPLICATION_DATA == 23
GNUTLS_INNER_APPLICATION == 24
\* alert levels and alert descriptions, as the handlers compare them
GNUTLS_AL_WARNING == 1
GNUTLS_AL_FATAL == 2
GNUTLS_A_CLOSE_NOTIFY == 0
GNUTLS_A_HANDSHAKE_FAILURE == 40

ContentTypes ==
  { GNUTLS_CHANGE_CIPHER_SPEC, GNUTLS_ALERT, GNUTLS_HANDSHAKE,
    GNUTLS_APPLICATION_DATA, GNUTLS_INNER_APPLICATION }

\* The values of connection->s_state the handlers name.
MHDS_STATES ==
  { "MHDS_CONNECTION_INIT", "MHDS_HANDSHAKE_FAILED", "MHDS_HANDSHAKE_COMPLETE",
    "MHDS_REPLY_SENDING", "MHDS_CONNECTION_CLOSED" }

\* The states of the connection FSM (connection->state):
\* "INIT" is MHD_CONNECTION_INIT and "CLOSED" is MHD_CONNECTION_CLOSED.
FSM_STATES ==
  { "INIT", "URL", "HEADERS", "HANDLER", "BODY_READ", "SEND", "SEND_BODY",
    "FOOTERS", "DONE", "CLOSED" }

\* enum MHD_RequestTerminationCode
TerminationCodes ==
  { "MHD_REQUEST_TERMINATED_WITH_ERROR",
    "MHD_REQUEST_TERMINATED_TIMEOUT_REACHED",
    "MHD_REQUEST_TERMINATED_DAEMON_SHUTDOWN" }

\* What gnutls_handshake can return: 0, a retryable error, a fatal error.
HandshakeResults == { "ok", "again", "fatal" }

\* The TLS records a peer can put on the wire.  An alert carries its level
\* and its description (any byte the peer likes: close_notify,
\* handshake_failure, and the byte whose value is that of GNUTLS_AL_FATAL);
\* the other records are opaque here.
AlertRecords ==
  [ type : {GNUTLS_ALERT},
    level : {GNUTLS_AL_WARNING, GNUTLS_AL_FATAL},
    desc : {GNUTLS_A_CLOSE_NOTIFY, GNUTLS_AL_FATAL, GNUTLS_A_HANDSHAKE_FAILURE} ]

PlainRecords ==
  [ type : ContentTypes \ {GNUTLS_ALERT}, level : {0}, desc : {0} ]

Records == AlertRecords \cup PlainRecords

VARIABLES
  conn,      \* struct MHD_Connection of the one connection, TLS session included
  sock,      \* the operating system's side of the socket and the wire
  notified,  \* the reasons daemon->notify_completed was called with, in order
  offered,   \* the s_state values in which bytes were offered to the HTTP parser
  now,       \* time (NULL)
  daemon,    \* struct MHD_Daemon: connection_timeout, notify_completed
  last,      \* the last handler invocation: which, on what, its return value
  wire_in,     \* HTTP bytes the client has sent and the transport has not read
  read_buffer, \* connection->read_buffer: bytes read and not yet parsed
  request,     \* the parsed request: version, Connection header, body left
  response,    \* connection->response with its status code; << >> is NULL
  keepalive,   \* connection->keepalive
  out,         \* what the current response has put on the wire, in order
  hist,        \* history: requests sent and served, handler calls, ...
  parser,      \* the request parser at work on one request (Part 3)
  shared,      \* one struct MHD_Response shared by connection threads (Part 4)
  stream,      \* one queuing of a callback response being sent (Part 5)
  dmn,         \* a daemon from MHD_start_daemon to MHD_stop_daemon (Part 6)
  chain,       \* one verification of a certificate list (Part 7)
  exec,        \* one handler invocation, statement by statement (Part 8)
  rbuf,        \* the read buffer across transport receives (Part 9)
  ext,         \* one OPRFI extension received by a session (Part 10)
  mpi          \* one call that reads public-key parameters (Part 11)

tlsVars == << conn, sock, notified, offered, now, daemon, last >>
partVars == << parser, shared, stream,
               dmn, chain, exec, rbuf, ext, mpi >>
httpVars == << wire_in, read_buffer, request, response, keepalive, out, hist,
               parser, shared, stream,
               dmn, chain, exec, rbuf, ext, mpi >>
vars == << conn, sock, notified, offered, now, daemon, last,
           wire_in, read_buffer, request, response, keepalive, out, hist,
           parser, shared, stream,
               dmn, chain, exec, rbuf, ext, mpi >>

\* The connection, its socket and the notifier's log, as one value the
\* handlers transform.
Machine ==
  [ conn |-> conn, sock |-> sock, notified |-> notified, offered |-> offered ]

\* ------------------------------------------------- connection_https.c:45-57
\* SHUTDOWN and CLOSE of the descriptor, socket_fd = -1, state = CLOSED, and
\* the notifier, when one is registered, called with TERMINATED_WITH_ERROR.
connection_close_error(m, d) ==
  [ m EXCEPT
      !.sock.fd_open = FALSE,
      !.conn.socket_fd = -1,
      !.conn.state = "CLOSED",
      !.notified =
        IF d.notify_completed
          THEN Append(@, "MHD_REQUEST_TERMINATED_WITH_ERROR")
          ELSE @ ]

\* ----------------------------------------------- connection_https.c:105-143
\* The switch of MHDS_connection_handle_idle (lines 115-130):
\* HANDSHAKE_FAILED sets socket_fd = -1 and falls through; INIT,
\* HANDSHAKE_COMPLETE and CLOSED close the connection with an error when the
\* socket is still there; every other state does nothing.
IdleSwitch(m, d) ==
  LET m1 == IF m.conn.s_state = "MHDS_HANDSHAKE_FAILED"
              THEN [m EXCEPT !.conn.socket_fd = -1]
              ELSE m
  IN IF m1.conn.s_state \in { "MHDS_HANDSHAKE_FAILED", "MHDS_CONNECTION_INIT",
                              "MHDS_HANDSHAKE_COMPLETE", "MHDS_CONNECTION_CLOSED" }
        /\ m1.conn.socket_fd # -1
       THEN connection_close_error(m1, d)
       ELSE m1

\* A timeout test that does not look at the descriptor.
IdleTimedOutAnyFd(c, d, t) ==
  /\ d.connection_timeout # 0
  /\ t - d.connection_timeout > c.last_activity

\* The timeout test of MHDS_connection_handle_idle (lines 134-137).
IdleTimedOut(c, d, t) ==
  /\ c.socket_fd # -1
  /\ d.connection_timeout # 0
  /\ t - d.connection_timeout > c.last_activity

\* MHDS_connection_handle_idle: the machine after the call, and what it returns.
MHDS_connection_handle_idle(m, d, t) ==
  LET m1 == IdleSwitch(m, d)
  IN IF IdleTimedOut(m1.conn, d, t)
       THEN [ m |-> connection_close_error(m1, d), ret |-> MHD_NO ]
       ELSE [ m |-> m1, ret |-> MHD_YES ]

\* ----------------------------------------------- connection_https.c:256-283
\* MHDS_connection_handle_write: last_activity is refreshed; in the four
\* states the switch names the connection is closed with an error when the
\* socket is still there, and MHD_NO is returned.  (In any other state the
\* while (1) loop has no exit; the event loop below never calls it there.)
MHDS_connection_handle_write(m, d, t) ==
  LET m1 == [m EXCEPT !.conn.last_activity = t]
  IN [ m |-> IF m1.conn.socket_fd # -1
               THEN connection_close_error(m1, d)
               ELSE m1,
       ret |-> MHD_NO ]

WriteReturns(c) ==
  c.s_state \in { "MHDS_HANDSHAKE_COMPLETE", "MHDS_CONNECTION_INIT",
                  "MHDS_HANDSHAKE_FAILED", "MHDS_CONNECTION_CLOSED" }

\* ------------------------------------------------------- the TLS library
\* A peek that answers from the wire whatever the descriptor is.
\* PeekResult is recv (socket_fd, &msg_type, 1, MSG_PEEK), line 157: -1 on
\* a bad descriptor, 0 at end of stream, 1 with a record pending.
PeekResultAnyFd(m) ==
  IF m.sock.inq # << >> THEN 1 ELSE 0

PeekResult(m) ==
  IF m.conn.socket_fd = -1 THEN -1
  ELSE IF m.sock.inq # << >> THEN 1
  ELSE 0

\* msg_type after the peek: the content type of the pending record; at end
\* of stream recv stores nothing and msg_type keeps whatever the stack held
\* (uninit, any content type).
PeekedType(m, uninit) ==
  IF m.sock.inq # << >> THEN Head(m.sock.inq).type ELSE uninit

\* The record layer takes the pending record off the socket.
ConsumeRecord(m) ==
  IF m.sock.inq # << >> THEN [m EXCEPT !.sock.inq = Tail(@)] ELSE m

\* _gnutls_recv_int (session, GNUTLS_ALERT, ..., 0), lines 175-176: the alert
\* is read and decrypted, internals.last_alert and last_alert_level are set
\* from it.  With nothing pending they keep their values.
gnutls_recv_alert(m) ==
  IF m.sock.inq # << >> /\ Head(m.sock.inq).type = GNUTLS_ALERT
    THEN [ ConsumeRecord(m) EXCEPT
             !.conn.last_alert = Head(m.sock.inq).desc,
             !.conn.last_alert_level = Head(m.sock.inq).level ]
    ELSE m

\* gnutls_bye (session, GNUTLS_SHUT_WR): a close_notify alert goes to the peer.
gnutls_bye(m) ==
  [m EXCEPT !.sock.sent = Append(@, "close_notify")]

\* gnutls_deinit (session): the session is freed.
gnutls_deinit(m) ==
  [m EXCEPT !.conn.session_live = FALSE]

\* gnutls_handshake (session), line 228: the handshake message is taken off
\* the socket; hs is what the peer's message makes of it.  At end of stream
\* there is nothing to complete a handshake with.
gnutls_handshake_ret(m, hs) ==
  IF m.sock.inq = << >> /\ hs = "ok" THEN "fatal" ELSE hs

\* MHD_connection_handle_read, called at line 225: the HTTP layer receives
\* from the transport into the read buffer and the FSM leaves INIT for URL.
MHD_connection_handle_read(m) ==
  [ m |-> [ ConsumeRecord(m) EXCEPT
              !.offered = @ \cup {m.conn.s_state},
              !.conn.state = IF @ = "INIT" THEN "URL" ELSE @ ],
    ret |-> MHD_YES ]

\* ----------------------------------------------- connection_https.c:170-220
\* case GNUTLS_ALERT of MHDS_connection_handle_read.
ReadAlert(m) ==
  LET m1 == gnutls_recv_alert(m)
  IN IF m1.conn.last_alert = GNUTLS_A_CLOSE_NOTIFY
       THEN [ m |-> gnutls_deinit(
                      [ gnutls_bye(m1) EXCEPT !.conn.read_eof = TRUE,
                                              !.conn.socket_fd = -1 ]),
              ret |-> MHD_YES ]
     ELSE IF m1.conn.last_alert # GNUTLS_AL_FATAL
       THEN [ m |-> m1, ret |-> MHD_YES ]
     ELSE [ m |-> gnutls_deinit(
                    [ m1 EXCEPT !.conn.resumable = FALSE,
                                !.conn.valid_connection = FALSE,
                                !.conn.socket_fd = -1 ]),
            ret |-> MHD_NO ]

\* ----------------------------------------------- connection_https.c:227-248
\* case GNUTLS_HANDSHAKE of MHDS_connection_handle_read.
ReadHandshake(m, hs) ==
  LET ret == gnutls_handshake_ret(m, hs)
      m1 == ConsumeRecord(m)
  IN IF ret = "ok"
       THEN [ m |-> [ m1 EXCEPT !.conn.s_state = "MHDS_HANDSHAKE_COMPLETE",
                                !.conn.state = "INIT" ],
              ret |-> MHD_YES ]
       ELSE [ m |-> [ gnutls_deinit(gnutls_bye(
                        [m1 EXCEPT !.conn.s_state = "MHDS_HANDSHAKE_FAILED"]))
                      EXCEPT !.conn.socket_fd = -1 ],
              ret |-> MHD_NO ]

\* ----------------------------------------------- connection_https.c:145-254
\* MHDS_connection_handle_read at time t; uninit is the value msg_type holds
\* when the peek stores nothing, hs the outcome of a handshake step.
MHDS_connection_handle_read(m, t, uninit, hs) ==
  LET m1 == [m EXCEPT !.conn.last_activity = t]
      msg_type == PeekedType(m1, uninit)
  IN IF m1.conn.s_state = "MHDS_CONNECTION_CLOSED"
       THEN [ m |-> m1, ret |-> MHD_NO ]
     ELSE IF PeekResult(m1) = -1
       THEN [ m |-> m1, ret |-> MHD_NO ]
     ELSE IF msg_type = GNUTLS_CHANGE_CIPHER_SPEC
       THEN [ m |-> m1, ret |-> MHD_YES ]
     ELSE IF msg_type = GNUTLS_ALERT
       THEN ReadAlert(m1)
     ELSE IF msg_type = GNUTLS_APPLICATION_DATA
       THEN MHD_connection_handle_read(m1)
     ELSE IF msg_type = GNUTLS_HANDSHAKE
       THEN ReadHandshake(m1, hs)
     ELSE [ m |-> m1, ret |-> MHD_YES ]

\* ------------------------------------------------------------ the system
\* A connection as the daemon hands it to the handlers after accept: the
\* socket open, nothing received, the TLS session allocated, s_state and
\* state in their initial values.
InitConn ==
  [ s_state |-> "MHDS_CONNECTION_INIT", state |-> "INIT", socket_fd |-> 1,
    last_activity |-> 0, last_alert |-> -1, last_alert_level |-> -1,
    read_eof |-> FALSE, valid_connection |-> TRUE, resumable |-> TRUE,
    session_live |-> TRUE ]

InitSock ==
  [ fd_open |-> TRUE, inq |-> << >>, peer_eof |-> FALSE, sent |-> << >> ]

Daemons ==
  [ connection_timeout : 0..MaxTimeout, notify_completed : BOOLEAN ]

\* The HTTP layer before the first byte: nothing read, no request, no response.
NoRequest ==
  [ id |-> 0, ver |-> "none", conn_hdr |-> "none", body_len |-> 0,
    body_left |-> 0 ]

\* sent: requests the client has written; fresh_read: a transport read
\* happened since the current request was begun; calls:
\* handler calls for the current request; answered: the last request a
\* response was queued for; served: the requests whose response is done;
\* attempts, queue_rets: the handler's MHD_queue_response calls in its last
\* call and what they returned; handler_no: the handler returned MHD_NO.
InitHist ==
  [ sent |-> 0, fresh_read |-> FALSE, calls |-> 0, answered |-> 0,
    served |-> << >>, attempts |-> << >>, queue_rets |-> << >>,
    handler_no |-> FALSE ]

\* A part of the model that a specification does not run.
NotInUse == [ state |-> "OFF" ]

\* Parts 6 to 11 not run.
LaterPartsOff ==
  /\ dmn = NotInUse
  /\ chain = NotInUse
  /\ exec = NotInUse
  /\ rbuf = NotInUse
  /\ ext = NotInUse
  /\ mpi = NotInUse

InitHttpVars ==
  /\ parser = NotInUse
  /\ shared = NotInUse
  /\ stream = NotInUse
  /\ LaterPartsOff
  /\ wire_in = << >>
  /\ read_buffer = << >>
  /\ request = NoRequest
  /\ response = << >>
  /\ keepalive = TRUE
  /\ out = << >>
  /\ hist = InitHist

Init ==
  /\ conn = InitConn
  /\ sock = InitSock
  /\ notified = << >>
  /\ offered = {}
  /\ now = 0
  /\ daemon \in Daemons
  /\ last = [ op |-> "none", type |-> -1, hs |-> "none", ret |-> MHD_YES ]
  /\ InitHttpVars

Commit(r) ==
  /\ conn' = r.m.conn
  /\ sock' = r.m.sock
  /\ notified' = r.m.notified
  /\ offered' = r.m.offered

\* The peer writes one more TLS record.  Once the server has dropped its
\* descriptor no handler looks at the socket again, and what the peer sends
\* after that is not queued here.
PeerSend ==
  /\ sock.fd_open
  /\ conn.socket_fd # -1
  /\ ~ sock.peer_eof
  /\ Len(sock.inq) < MaxQueue
  /\ \E r \in Records : sock' = [sock EXCEPT !.inq = Append(@, r)]
  /\ UNCHANGED << conn, notified, offered, now, daemon, last >>
  /\ UNCHANGED httpVars

\* The peer shuts its side of the connection down.
PeerClose ==
  /\ sock.fd_open
  /\ conn.socket_fd # -1
  /\ ~ sock.peer_eof
  /\ sock' = [sock EXCEPT !.peer_eof = TRUE]
  /\ UNCHANGED << conn, notified, offered, now, daemon, last >>
  /\ UNCHANGED httpVars

\* A second passes.
Tick ==
  /\ now < MaxTime
  /\ now' = now + 1
  /\ UNCHANGED << conn, sock, notified, offered, daemon, last >>
  /\ UNCHANGED httpVars

\* The values msg_type can hold when the handler looks at it: chosen by the
\* build only when the peek stored nothing.
UninitChoices(m) ==
  IF PeekResult(m) = 0 THEN ContentTypes ELSE {GNUTLS_CHANGE_CIPHER_SPEC}

\* The outcomes of the handshake step, when the handler takes one.
HandshakeChoices(m, uninit) ==
  IF PeekResult(m) # -1 /\ PeekedType(m, uninit) = GNUTLS_HANDSHAKE
       /\ m.conn.s_state # "MHDS_CONNECTION_CLOSED"
    THEN HandshakeResults
    ELSE {"none"}

\* The event loop calls the read handler: the socket is readable (a record
\* is pending or the peer has closed) or the descriptor is gone.
HandleRead ==
  /\ sock.inq # << >> \/ sock.peer_eof \/ conn.socket_fd = -1
  /\ \E uninit \in UninitChoices(Machine) :
       \E hs \in HandshakeChoices(Machine, uninit) :
         LET r == MHDS_connection_handle_read(Machine, now, uninit, hs)
         IN /\ Commit(r)
            /\ last' = [ op |-> "read",
                         type |-> IF PeekResult(Machine) = -1 THEN -1
                                  ELSE PeekedType(Machine, uninit),
                         hs |-> IF hs = "none" THEN hs
                                ELSE gnutls_handshake_ret(Machine, hs),
                         ret |-> r.ret ]
  /\ UNCHANGED << now, daemon >>
  /\ UNCHANGED httpVars

\* The event loop calls the idle handler.
HandleIdle ==
  /\ LET r == MHDS_connection_handle_idle(Machine, daemon, now)
     IN /\ Commit(r)
        /\ last' = [ op |-> "idle", type |-> -1, hs |-> "none", ret |-> r.ret ]
  /\ UNCHANGED << now, daemon >>
  /\ UNCHANGED httpVars

\* The event loop calls the write handler.
HandleWrite ==
  /\ WriteReturns(conn)
  /\ LET r == MHDS_connection_handle_write(Machine, daemon, now)
     IN /\ Commit(r)
        /\ last' = [ op |-> "write", type |-> -1, hs |-> "none", ret |-> r.ret ]
  /\ UNCHANGED << now, daemon >>
  /\ UNCHANGED httpVars

\* Spec: the handlers under every order of records.  s_state only takes the
\* values the read handler assigns; for each of them the idle handler's
\* switch has dropped the socket before its timeout test, so the clock
\* decides nothing here and stands still.  SpecTimed lets it run.
Next ==
  \/ PeerSend
  \/ PeerClose
  \/ HandleRead
  \/ HandleIdle
  \/ HandleWrite

Spec == Init /\ [][Next]_vars

\* SpecTimed: the idle, write and read handlers with the clock running, from
\* every value of s_state (the reply states are set by the HTTP layer).
InitTimed ==
  /\ \E s \in MHDS_STATES : conn = [InitConn EXCEPT !.s_state = s]
  /\ sock = InitSock
  /\ notified = << >>
  /\ offered = {}
  /\ now = 0
  /\ daemon \in Daemons
  /\ last = [ op |-> "none", type |-> -1, hs |-> "none", ret |-> MHD_YES ]
  /\ InitHttpVars

NextTimed ==
  \/ Tick
  \/ PeerClose
  \/ HandleRead
  \/ HandleIdle
  \/ HandleWrite

SpecTimed == InitTimed /\ [][NextTimed]_vars

(***************************************************************************)
(* Part 2 (specification SpecHttp): the HTTP connection engine, whose      *)
(* source file is not among the sources; it is modelled from the design    *)
(* of the connection FSM (states INIT .. CLOSED, the handler contract,     *)
(* keep-alive, pipelining) and from the declarations of microhttpd.h.  It  *)
(* runs over a secure connection whose handshake is complete; an error     *)
(* close is connection_close_error above.                                  *)
(***************************************************************************)
Versions == { "HTTP/1.0", "HTTP/1.1" }
ConnHdrs == { "none", "close", "keep-alive" }

\* What a request is made of on the wire: its request line, its header
\* block (Connection header, Content-Length) with the blank line, and its
\* body bytes.
Tok(k, id, ver, ch, n) ==
  [ k |-> k, id |-> id, ver |-> ver, conn_hdr |-> ch, body_len |-> n ]

RequestTokens(id, ver, ch, n) ==
  << Tok("line", id, ver, "none", 0), Tok("hdrs", id, "none", ch, n) >>
    \o [ i \in 1..n |-> Tok("body", id, "none", "none", 0) ]

\* struct MHD_Response as far as the engine looks at it: size unknown
\* (chunked) or known, and an explicit Connection header or none.
Responses == [ chunked : BOOLEAN, conn_hdr : ConnHdrs ]

\* A queue_response that replaces a response already queued.
QueueOverwrites(resp, status_code, r) ==
  [ response |-> << [ status |-> status_code, r |-> r ] >>, ret |-> MHD_YES ]

\* MHD_queue_response (connection, status_code, response): MHD_NO when a
\* response is already queued, which stays as it is; otherwise the response
\* and its status code are stored.
MHD_queue_response(resp, status_code, r) ==
  IF resp # << >>
    THEN [ response |-> resp, ret |-> MHD_NO ]
    ELSE [ response |-> << [ status |-> status_code, r |-> r ] >>,
           ret |-> MHD_YES ]

\* The access handler's calls of MHD_queue_response, in order.
RECURSIVE RunAttempts(_, _, _)
RunAttempts(resp, attempts, rets) ==
  IF attempts = << >>
    THEN [ response |-> resp, rets |-> rets ]
    ELSE LET q == MHD_queue_response(resp, Head(attempts).status,
                                     Head(attempts).r)
         IN RunAttempts(q.response, Tail(attempts), Append(rets, q.ret))

\* What an access handler may do in one call: return MHD_NO; return MHD_YES
\* without a response (only while it can expect another call); queue one
\* response; queue one and try to queue a second, different one.
HandlerBehaviours(req, calls) ==
  { [ ret |-> MHD_NO, attempts |-> << >> ] }
  \cup { [ ret |-> MHD_YES, attempts |-> << >> ] :
           x \in { y \in {0} : req.body_left > 0 \/ calls = 0 } }
  \cup { [ ret |-> MHD_YES,
           attempts |-> << [ status |-> MHD_HTTP_OK, r |-> r ] >> ] :
           r \in Responses }
  \cup { [ ret |-> MHD_YES,
           attempts |-> << [ status |-> MHD_HTTP_OK, r |-> r ],
                           [ status |-> MHD_HTTP_NOT_FOUND,
                             r |-> [ r EXCEPT !.chunked = ~ @ ] ] >> ] :
           r \in Responses }

\* An engine that calls the handler whether or not a response is queued.
NeverSuppressed(resp) == FALSE

\* Once a response is queued the handler is not called again for the request.
HandlerSuppressed(resp) == resp # << >>

\* HANDLER -> BODY_READ or SEND; without a response and without body left
\* the handler is called once more.
NextAfterHandler(resp, body_left) ==
  IF body_left > 0 THEN "BODY_READ"
  ELSE IF resp # << >> THEN "SEND"
  ELSE "HANDLER"

\* A keep-alive rule that keeps every connection not told to close.
KeepAliveUnlessClose(ver, req_hdr, resp_hdr) ==
  ~ (req_hdr = "close" \/ resp_hdr = "close")

\* Keep-alive: the default of the version, overridden by an explicit
\* Connection header of the request or of the response; close wins.
KeepAlive(ver, req_hdr, resp_hdr) ==
  IF req_hdr = "close" \/ resp_hdr = "close" THEN FALSE
  ELSE IF req_hdr = "keep-alive" \/ resp_hdr = "keep-alive" THEN TRUE
  ELSE ver = "HTTP/1.1"

\* An engine that finishes a response at the end of its body.
SkipFooters(chunked) == "DONE"

\* SEND_BODY -> FOOTERS for a chunked response, DONE otherwise.
AfterBody(chunked) == IF chunked THEN "FOOTERS" ELSE "DONE"

\* An engine that empties the read buffer when a request is done.
DropBuffer(buf) == << >>

\* DONE -> INIT keeps the bytes that follow the finished request.
RetainBuffer(buf) == buf

\* The record of the handler's last call is kept until the FSM's next step.
Forget(h) == [ h EXCEPT !.attempts = << >>, !.queue_rets = << >> ]

Emit(part, r, ka) == [ part |-> part, chunked |-> r.chunked, close |-> ~ ka ]

BodySent(o) == Cardinality({ i \in DOMAIN o : o[i].part = "body" })

\* The secure connection the HTTP engine starts on: handshake complete.
InitHttp ==
  /\ conn = [InitConn EXCEPT !.s_state = "MHDS_HANDSHAKE_COMPLETE"]
  /\ sock = InitSock
  /\ notified = << >>
  /\ offered = {}
  /\ now = 0
  /\ daemon \in { d \in Daemons : d.connection_timeout = 0 }
  /\ last = [ op |-> "none", type |-> -1, hs |-> "none", ret |-> MHD_YES ]
  /\ InitHttpVars

HttpFrame == UNCHANGED << offered, now, daemon, last, parser, shared, stream,
               dmn, chain, exec, rbuf, ext, mpi >>

\* The client writes one more request, whole.
ClientSend ==
  /\ hist.sent < MaxRequests
  /\ conn.socket_fd # -1
  /\ \E ver \in Versions, ch \in ConnHdrs, n \in {0, MaxReqBody} :
       wire_in' = wire_in \o RequestTokens(hist.sent + 1, ver, ch, n)
  /\ hist' = [hist EXCEPT !.sent = @ + 1]
  /\ UNCHANGED << conn, sock, notified, read_buffer, request, response,
                  keepalive, out >>
  /\ HttpFrame

\* A transport read: what has arrived goes to the end of the read buffer;
\* INIT -> URL on bytes available.
HttpRead ==
  /\ conn.state \in { "INIT", "URL", "HEADERS", "BODY_READ" }
  /\ conn.socket_fd # -1
  /\ wire_in # << >>
  /\ read_buffer' = read_buffer \o wire_in
  /\ wire_in' = << >>
  /\ conn' = [conn EXCEPT !.state = IF @ = "INIT" THEN "URL" ELSE @]
  /\ hist' = [hist EXCEPT !.fresh_read = TRUE]
  /\ UNCHANGED << sock, notified, request, response, keepalive, out >>
  /\ HttpFrame

\* INIT -> URL on bytes that are already in the read buffer: no read.
Reparse ==
  /\ conn.state = "INIT"
  /\ read_buffer # << >>
  /\ conn' = [conn EXCEPT !.state = "URL"]
  /\ hist' = [hist EXCEPT !.fresh_read = FALSE]
  /\ UNCHANGED << sock, notified, wire_in, read_buffer, request, response,
                  keepalive, out >>
  /\ HttpFrame

\* URL -> HEADERS: the request line is parsed.
ParseUrl ==
  /\ conn.state = "URL"
  /\ read_buffer # << >>
  /\ Head(read_buffer).k = "line"
  /\ request' = [ NoRequest EXCEPT !.id = Head(read_buffer).id,
                                   !.ver = Head(read_buffer).ver ]
  /\ read_buffer' = Tail(read_buffer)
  /\ conn' = [conn EXCEPT !.state = "HEADERS"]
  /\ UNCHANGED << sock, notified, wire_in, response, keepalive, out, hist >>
  /\ HttpFrame

\* HEADERS -> HANDLER: the header block is parsed, framing and keep-alive
\* are decided.
ParseHeaders ==
  /\ conn.state = "HEADERS"
  /\ read_buffer # << >>
  /\ Head(read_buffer).k = "hdrs"
  /\ request' = [ request EXCEPT !.conn_hdr = Head(read_buffer).conn_hdr,
                                 !.body_len = Head(read_buffer).body_len,
                                 !.body_left = Head(read_buffer).body_len ]
  /\ keepalive' = KeepAlive(request.ver, Head(read_buffer).conn_hdr, "none")
  /\ read_buffer' = Tail(read_buffer)
  /\ conn' = [conn EXCEPT !.state = "HANDLER"]
  /\ UNCHANGED << sock, notified, wire_in, response, out, hist >>
  /\ HttpFrame

\* HANDLER: the access handler is called.  MHD_NO closes the connection
\* with an error; otherwise the FSM goes on to BODY_READ or SEND.
CallHandler ==
  /\ conn.state = "HANDLER"
  /\ ~ HandlerSuppressed(response)
  /\ \E b \in HandlerBehaviours(request, hist.calls) :
       LET q == RunAttempts(response, b.attempts, << >>)
           h == [ hist EXCEPT !.calls = @ + 1,
                              !.answered = IF q.response # << >>
                                             THEN request.id ELSE @,
                              !.attempts = b.attempts,
                              !.queue_rets = q.rets,
                              !.handler_no = (b.ret = MHD_NO) ]
       IN IF b.ret = MHD_NO
            THEN /\ Commit([ m |-> connection_close_error(Machine, daemon) ])
                 /\ response' = response
                 /\ hist' = h
            ELSE /\ response' = q.response
                 /\ conn' = [ conn EXCEPT !.state =
                                NextAfterHandler(q.response, request.body_left) ]
                 /\ hist' = h
                 /\ UNCHANGED << sock, notified, offered >>
  /\ UNCHANGED << wire_in, read_buffer, request, keepalive, out >>
  /\ UNCHANGED << now, daemon, last, parser, shared, stream,
               dmn, chain, exec, rbuf, ext, mpi >>

\* HANDLER with a response queued: no call.
SkipHandler ==
  /\ conn.state = "HANDLER"
  /\ HandlerSuppressed(response)
  /\ conn' = [ conn EXCEPT !.state =
                 NextAfterHandler(response, request.body_left) ]
  /\ hist' = Forget(hist)
  /\ UNCHANGED << sock, notified, wire_in, read_buffer, request, response,
                  keepalive, out >>
  /\ HttpFrame

\* BODY_READ -> HANDLER: a piece of the body is taken from the read buffer.
BodyRead ==
  /\ conn.state = "BODY_READ"
  /\ request.body_left > 0
  /\ read_buffer # << >>
  /\ Head(read_buffer).k = "body"
  /\ read_buffer' = Tail(read_buffer)
  /\ request' = [request EXCEPT !.body_left = @ - 1]
  /\ conn' = [conn EXCEPT !.state = "HANDLER"]
  /\ hist' = Forget(hist)
  /\ UNCHANGED << sock, notified, wire_in, response, keepalive, out >>
  /\ HttpFrame

\* SEND -> SEND_BODY: status line and headers are written; a connection
\* that will be closed says so.
SendHeaders ==
  /\ conn.state = "SEND"
  /\ response # << >>
  /\ LET ka == KeepAlive(request.ver, request.conn_hdr, response[1].r.conn_hdr)
     IN /\ keepalive' = ka
        /\ out' = << Emit("headers", response[1].r, ka) >>
  /\ conn' = [conn EXCEPT !.state = "SEND_BODY"]
  /\ hist' = Forget(hist)
  /\ UNCHANGED << sock, notified, wire_in, read_buffer, request, response >>
  /\ HttpFrame

\* SEND_BODY: one more piece of the body is written.
SendBody ==
  /\ conn.state = "SEND_BODY"
  /\ BodySent(out) < MaxRespBody
  /\ out' = Append(out, Emit("body", response[1].r, keepalive))
  /\ UNCHANGED << conn, sock, notified, wire_in, read_buffer, request,
                  response, keepalive, hist >>
  /\ HttpFrame

\* SEND_BODY -> FOOTERS or DONE: the body is fully transmitted.
BodyDone ==
  /\ conn.state = "SEND_BODY"
  /\ BodySent(out) = MaxRespBody
  /\ conn' = [conn EXCEPT !.state = AfterBody(response[1].r.chunked)]
  /\ UNCHANGED << sock, notified, wire_in, read_buffer, request, response,
                  keepalive, out, hist >>
  /\ HttpFrame

\* The content reader of a callback response returns -1: the connection is
\* closed with an error, mid-stream.
ReaderError ==
  /\ conn.state = "SEND_BODY"
  /\ response[1].r.chunked
  /\ BodySent(out) < MaxRespBody
  /\ Commit([ m |-> connection_close_error(Machine, daemon) ])
  /\ response' = << >>
  /\ UNCHANGED << wire_in, read_buffer, request, keepalive, out, hist >>
  /\ UNCHANGED << now, daemon, last, parser, shared, stream,
               dmn, chain, exec, rbuf, ext, mpi >>

\* FOOTERS -> DONE: the last chunk and the trailers are written.
SendFooters ==
  /\ conn.state = "FOOTERS"
  /\ out' = Append(out, Emit("trailers", response[1].r, keepalive))
  /\ conn' = [conn EXCEPT !.state = "DONE"]
  /\ UNCHANGED << sock, notified, wire_in, read_buffer, request, response,
                  keepalive, hist >>
  /\ HttpFrame

\* DONE -> INIT with keep-alive (the buffers are retained), else -> CLOSED
\* (the transport is shut down).
Done ==
  /\ conn.state = "DONE"
  /\ response' = << >>
  /\ hist' = [ hist EXCEPT !.served = Append(@, request.id), !.calls = 0 ]
  /\ IF keepalive
       THEN /\ conn' = [conn EXCEPT !.state = "INIT"]
            /\ read_buffer' = RetainBuffer(read_buffer)
            /\ request' = NoRequest
            /\ out' = << >>
            /\ UNCHANGED sock
       ELSE /\ conn' = [conn EXCEPT !.state = "CLOSED", !.socket_fd = -1]
            /\ sock' = [sock EXCEPT !.fd_open = FALSE]
            /\ UNCHANGED << read_buffer, request, out >>
  /\ UNCHANGED << notified, wire_in, keepalive >>
  /\ HttpFrame

NextHttp ==
  \/ ClientSend
  \/ HttpRead
  \/ Reparse
  \/ ParseUrl
  \/ ParseHeaders
  \/ CallHandler
  \/ SkipHandler
  \/ BodyRead
  \/ SendHeaders
  \/ SendBody
  \/ BodyDone
  \/ ReaderError
  \/ SendFooters
  \/ Done

SpecHttp == InitHttp /\ [][NextHttp]_vars

\* =================================================================== claims
\* ----------------------------------------------------------------------- C1
\* C1: on a secure connection no received byte is offered to the HTTP parser
\* (MHD_connection_handle_read is not called from the secure read handler)
\* while s_state is not MHDS_HANDSHAKE_COMPLETE, whatever the order of the
\* record types that arrive.
C1_ParserOnlyAfterHandshake ==
  offered \subseteq {"MHDS_HANDSHAKE_COMPLETE"}

\* ----------------------------------------------------------------------- C2
\* C2: with a timeout T > 0 configured, idle processing of a connection that
\* has been inactive for more than T seconds closes it and calls the
\* registered notifier with TERMINATED_TIMEOUT_REACHED, not an error reason.
IdleLongerThanTimeout ==
  /\ daemon.connection_timeout > 0
  /\ now - conn.last_activity > daemon.connection_timeout
  /\ conn.socket_fd # -1

C2_TimeoutNotifiesTimeoutReached ==
  [][ (HandleIdle /\ IdleLongerThanTimeout)
        => /\ conn'.socket_fd = -1
           /\ daemon.notify_completed
                => notified' =
                     Append(notified, "MHD_REQUEST_TERMINATED_TIMEOUT_REACHED")
    ]_vars

\* ----------------------------------------------------------------------- C4
\* C4: from any connection state a fatal transport error (a handshake that
\* fails fatally, or an alert of fatal level) moves the FSM state to CLOSED,
\* and nothing more is sent to the peer.
FatalTransportError ==
  /\ HandleRead
  /\ conn.s_state # "MHDS_CONNECTION_CLOSED"
  /\ conn.socket_fd # -1
  /\ sock.inq # << >>
  /\ \/ Head(sock.inq).type = GNUTLS_HANDSHAKE /\ last'.hs = "fatal"
     \/ Head(sock.inq).type = GNUTLS_ALERT
          /\ Head(sock.inq).level = GNUTLS_AL_FATAL

C4_FatalTransportErrorClosesFsm ==
  [][ FatalTransportError => conn'.state = "CLOSED" /\ conn'.socket_fd = -1 ]_vars

\* ----------------------------------------------------------------------- C5
\* C5: once the handshake is complete, a ChangeCipherSpec record makes the
\* server disconnect the client: the read handler that finds it leaves the
\* connection closed, not open.
C5_CipherChangeAfterHandshakeDisconnects ==
  ( /\ last.op = "read"
    /\ last.type = GNUTLS_CHANGE_CIPHER_SPEC
    /\ conn.s_state = "MHDS_HANDSHAKE_COMPLETE"
    /\ sock.inq # << >>
    /\ Head(sock.inq).type = GNUTLS_CHANGE_CIPHER_SPEC )
  => (conn.socket_fd = -1 /\ ~ sock.fd_open)

\* ----------------------------------------------------------------------- C3
\* C3: when the access handler returns NO the connection is closed without
\* a response; on a secure connection the peer sees a close-notify; a
\* registered notifier is fired with TERMINATED_WITH_ERROR.
CloseNotifySent == \E i \in DOMAIN sock.sent : sock.sent[i] = "close_notify"

C3_HandlerNoClosesWithCloseNotify ==
  hist.handler_no
    => /\ conn.state = "CLOSED"
       /\ conn.socket_fd = -1
       /\ out = << >>
       /\ CloseNotifySent
       /\ daemon.notify_completed
            => notified = << "MHD_REQUEST_TERMINATED_WITH_ERROR" >>

\* ----------------------------------------------------------------------- C6
\* C6: queue_response fails (MHD_NO) whenever a response is already queued
\* and leaves that response and its status code as they are; at most one
\* response is queued on the connection at any time.
C6_QueueFailsWhenAlreadyQueued ==
  /\ Len(response) <= 1
  /\ \A i \in DOMAIN hist.queue_rets :
       hist.queue_rets[i] = IF i = 1 THEN MHD_YES ELSE MHD_NO
  /\ hist.queue_rets # << >> => response = << hist.attempts[1] >>
  /\ response # << >>
       => \A st \in {MHD_HTTP_OK, MHD_HTTP_NOT_FOUND}, r \in Responses :
            MHD_queue_response(response, st, r)
              = [ response |-> response, ret |-> MHD_NO ]

\* A handler queued a response and then tried to queue another one.
C6_Witness ==
  /\ Len(hist.queue_rets) = 2
  /\ response # << >>
  /\ response[1].status = MHD_HTTP_OK

\* ----------------------------------------------------------------------- C7
\* C7: once the handler has queued a response for a request it is not
\* called again for that request (upload data that remains triggers no
\* call) and the FSM goes on to SEND; the handler is next called for the
\* next request.
C7_HandlerSuppressedAfterQueue ==
  [][ /\ hist'.calls = hist.calls + 1
           => (response = << >> /\ request.id # hist.answered)
      /\ hist'.answered # hist.answered
           => (response' # << >> /\ conn'.state \in {"BODY_READ", "SEND"})
      /\ (request.id # 0 /\ request.id = hist.answered
            /\ conn.state \in {"HANDLER", "BODY_READ"})
           => conn'.state \in {"HANDLER", "BODY_READ", "SEND"}
    ]_vars

\* A request with a body was answered at the handler's first call, its body
\* was read without another call, and the FSM is in SEND.
C7_Witness ==
  /\ conn.state = "SEND"
  /\ hist.calls = 1
  /\ request.body_len > 0
  /\ request.body_left = 0

\* ----------------------------------------------------------------------- C8
\* C8: a response is emitted as status line and headers, then body, then
\* trailers: no body piece before the headers, FOOTERS entered only from
\* SEND_BODY and only for a chunked response, DONE only after the body (and
\* the trailers of a chunked response) are out.
EmissionOrder ==
  /\ \A i \in DOMAIN out : (out[i].part = "headers") <=> (i = 1)
  /\ \A i \in DOMAIN out :
       out[i].part = "trailers" => (i = Len(out) /\ out[i].chunked
                                     /\ BodySent(out) = MaxRespBody)
  /\ conn.state \in {"SEND_BODY", "FOOTERS", "DONE"}
       => (out # << >> /\ response # << >>)
  /\ conn.state = "FOOTERS"
       => /\ response[1].r.chunked
          /\ BodySent(out) = MaxRespBody
          /\ out[Len(out)].part # "trailers"
  /\ conn.state = "DONE"
       => /\ BodySent(out) = MaxRespBody
          /\ response[1].r.chunked <=> out[Len(out)].part = "trailers"

C8_HeadersBodyTrailersInOrder ==
  /\ []EmissionOrder
  /\ [][ /\ (conn'.state = "FOOTERS" /\ conn.state # "FOOTERS")
              => (conn.state = "SEND_BODY" /\ response[1].r.chunked)
         /\ (conn'.state = "DONE" /\ conn.state # "DONE")
              => conn.state = IF response[1].r.chunked
                                THEN "FOOTERS" ELSE "SEND_BODY"
       ]_vars

\* A chunked response is done: headers, every body piece, trailers.
C8_Witness ==
  /\ conn.state = "DONE"
  /\ Len(out) = MaxRespBody + 2
  /\ out[Len(out)].part = "trailers"

\* ----------------------------------------------------------------------- C9
\* C9: after DONE the connection returns to INIT iff keep-alive holds, and
\* is CLOSED otherwise; keep-alive is the version's default (1.1: yes,
\* 1.0: no) unless the request or the response carries an explicit
\* Connection: close or Connection: keep-alive; the response of a
\* connection that will be closed carries Connection: close.
ExplicitHdrs == { request.conn_hdr, response[1].r.conn_hdr } \ {"none"}

KeepAliveAsClaimed ==
  /\ ExplicitHdrs = {} => (keepalive <=> request.ver = "HTTP/1.1")
  /\ ExplicitHdrs = {"close"} => ~ keepalive
  /\ ExplicitHdrs = {"keep-alive"} => keepalive

C9_KeepAliveDecidesDone ==
  /\ [](conn.state \in {"SEND_BODY", "FOOTERS", "DONE"}
          => (KeepAliveAsClaimed /\ (out[1].close <=> ~ keepalive)))
  /\ [][ (conn.state = "DONE" /\ conn'.state # "DONE")
           => /\ conn'.state = IF keepalive THEN "INIT" ELSE "CLOSED"
              /\ conn'.state = "CLOSED" => (out'[1].close /\ ~ sock'.fd_open)
       ]_vars

\* An HTTP/1.1 request answered with Connection: close: the response is
\* complete, it says close, and the connection is closed.
C9_Witness ==
  /\ conn.state = "CLOSED"
  /\ hist.served # << >>
  /\ request.ver = "HTTP/1.1"
  /\ request.conn_hdr = "none"
  /\ out # << >>
  /\ out[1].close

\* ---------------------------------------------------------------------- C10
\* C10: bytes in the read buffer beyond the current request are still there,
\* unchanged and in order, after DONE -> INIT, and the next request is
\* parsed from them without a transport read; pipelined requests are
\* answered completely, in request order, with no close in between.
Pending == read_buffer \o wire_in

HasLine(buf, id) ==
  \E i \in DOMAIN buf : buf[i].k = "line" /\ buf[i].id = id

PipelineIntact ==
  /\ \A i \in DOMAIN hist.served : hist.served[i] = i
  /\ conn.socket_fd # -1
       => \A id \in 1..hist.sent :
            \/ id <= Len(hist.served)
            \/ id = request.id
            \/ HasLine(Pending, id)
  /\ (conn.state \in {"INIT", "URL"} /\ read_buffer # << >>)
       => /\ Head(read_buffer).k = "line"
          /\ Head(read_buffer).id = Len(hist.served) + 1

C10_PipelinedBytesRetained ==
  /\ []PipelineIntact
  /\ [][ /\ (conn.state = "DONE" /\ conn'.state = "INIT")
              => read_buffer' = read_buffer
         /\ (conn.state = "INIT" /\ read_buffer # << >> /\ conn'.state = "URL")
              => /\ Len(read_buffer') >= Len(read_buffer)
                 /\ SubSeq(read_buffer', 1, Len(read_buffer)) = read_buffer
       ]_vars

\* Two requests are answered, in order, on a connection that is still open,
\* the second one begun from the read buffer and finished with no transport
\* read in between.
C10_Witness ==
  /\ hist.served = << 1, 2 >>
  /\ ~ hist.fresh_read
  /\ conn.state = "INIT"
  /\ conn.socket_fd # -1

\* ---------------------------------------------------------------------- C20
\* C20: with a connection timeout of 0 the idle handler never closes a
\* connection whose socket is open and on which no error occurred, be it
\* still in its initial state or just through its handshake.
OpenWithoutError ==
  /\ conn.socket_fd # -1
  /\ sock.fd_open
  /\ conn.s_state \in { "MHDS_CONNECTION_INIT", "MHDS_HANDSHAKE_COMPLETE",
                        "MHDS_REPLY_SENDING" }

C20_ZeroTimeoutIdleKeepsOpen ==
  [][ (HandleIdle /\ daemon.connection_timeout = 0 /\ OpenWithoutError)
        => (conn'.socket_fd # -1 /\ sock'.fd_open /\ notified' = notified)
    ]_vars

(***************************************************************************)
(* Part 3 (specification SpecParse): the request parser at work on one     *)
(* request: request line, header block, body framing (Content-Length or    *)
(* chunked), Expect: 100-continue, the calls of the access handler with    *)
(* the upload data, and parse errors.  Its source file is not among the    *)
(* sources; it is modelled from the design of the parser and of the        *)
(* connection FSM.                                                         *)
(***************************************************************************)

\* Largest Content-Length, largest chunk, and most chunks of a request.
MaxBody == 2
MaxChunk == 2
MaxChunks == 2

\* A piece of a request on the wire: the request line (well-formed or
\* not), the header block (well-formed, with a bad header line, or over the
\* cap), a chunk-size line (well-formed or not), one body byte.
PTok(k, ok, ver, expect, framing, n) ==
  [ k |-> k, ok |-> ok, ver |-> ver, expect |-> expect,
    framing |-> framing, n |-> n ]

LineTok(ok, ver) == PTok("line", ok, ver, FALSE, "none", 0)
HdrsTok(ok, expect, framing, n) == PTok("hdrs", ok, "none", expect, framing, n)
SizeTok(ok, n) == PTok("size", ok, "none", FALSE, "none", n)
DataTok == PTok("data", "ok", "none", FALSE, "none", 0)

DataToks(n) == [ i \in 1..n |-> DataTok ]

RECURSIVE ChunkToks(_)
ChunkToks(sizes) ==
  IF sizes = << >> THEN << >>
  ELSE << SizeTok("ok", Head(sizes)) >> \o DataToks(Head(sizes))
         \o ChunkToks(Tail(sizes))

RECURSIVE SumSeq(_)
SumSeq(q) == IF q = << >> THEN 0 ELSE Head(q) + SumSeq(Tail(q))

ChunkLists ==
  UNION { [ 1..len -> 1..MaxChunk ] : len \in 0..MaxChunks }

\* The bodies a client may send: Content-Length d with m <= d bytes sent;
\* chunks that end with the zero chunk, that stop short, or that run into a
\* malformed chunk-size line.
CLBodies ==
  { [ framing |-> "cl", n |-> d, toks |-> DataToks(m) ] :
      d \in 0..MaxBody, m \in 0..MaxBody } \ 
  { b \in { [ framing |-> "cl", n |-> d, toks |-> DataToks(m) ] :
              d \in 0..MaxBody, m \in 0..MaxBody } : Len(b.toks) > b.n }

ChunkEndings ==
  { << SizeTok("ok", 0) >>, << >>, << SizeTok("bad", 0) >> }

ChunkedBodies ==
  { [ framing |-> "chunked", n |-> 0, toks |-> ChunkToks(cs) \o e ] :
      cs \in ChunkLists, e \in ChunkEndings }

\* The requests a client may send: well-formed ones with every body, and
\* malformed request lines and header blocks.
ParseWires ==
  { << LineTok("ok", v), HdrsTok("ok", x, b.framing, b.n) >> \o b.toks \o t :
      v \in Versions, x \in BOOLEAN, b \in CLBodies \cup ChunkedBodies,
      t \in { << >>, << LineTok("ok", "HTTP/1.1") >> } }
  \cup { << LineTok("bad", v) >> : v \in Versions }
  \cup { << LineTok("ok", v), HdrsTok(h, x, "cl", 0) >> :
           v \in Versions, h \in {"bad", "oversize"}, x \in BOOLEAN }

\* The parser and its connection before the first byte is parsed.
InitParser(w, eof) ==
  [ state |-> "URL", wire |-> w, eof |-> eof,
    sent |-> w,           \* what the client has written, for reference
    ver |-> "none", expect |-> FALSE, framing |-> "none", left |-> 0,
    eob |-> FALSE,        \* the end of the body has been read
    pending |-> 0,        \* upload bytes read and not yet shown to the handler
    queued |-> FALSE,     \* the handler has queued a response
    calls |-> 0,          \* calls of the access handler
    consumed |-> 0,       \* body bytes taken from the read buffer
    arrived |-> << >>,    \* sizes of the body pieces read, in order
    delivered |-> << >>,  \* upload sizes the handler was called with
    started |-> FALSE,    \* a body read has happened
    queued_at_first_read |-> FALSE,
    interim |-> 0,        \* 100 Continue responses written
    interim_before |-> 0, \* body bytes consumed when 100 Continue was written
    sent400 |-> 0,        \* 400 responses written
    final |-> 0,          \* final responses begun
    err |-> "none", err_at |-> "none" ]

\* An engine that closes on a parse error without a word.
DropSilently(p) ==
  [ p EXCEPT !.state = "CLOSED", !.err = "parse", !.err_at = p.state ]

\* A parse error: 400 when no response has begun, and the connection is
\* closed.
BadRequest(p) ==
  [ p EXCEPT !.state = "CLOSED", !.err = "parse", !.err_at = p.state,
             !.sent400 = IF p.final = 0 THEN @ + 1 ELSE @ ]

\* An engine that answers Expect: 100-continue whatever the version.
ContinueAnyVersion(p) ==
  /\ p.expect
  /\ ~ p.queued
  /\ ~ p.started
  /\ p.interim = 0

\* Expect: 100-continue is honoured for HTTP/1.1, once, at the first body
\* read, when the handler has not queued a response.
NeedContinue(p) ==
  /\ p.expect
  /\ p.ver = "HTTP/1.1"
  /\ ~ p.queued
  /\ ~ p.started
  /\ p.interim = 0

\* The number of body bytes at the head of the buffer.
RECURSIVE LeadingData(_)
LeadingData(w) ==
  IF w # << >> /\ Head(w).k = "data" THEN 1 + LeadingData(Tail(w)) ELSE 0

RECURSIVE Drop(_, _)
Drop(w, n) == IF n = 0 THEN w ELSE Drop(Tail(w), n - 1)

\* A reader that takes the body to be over after its first read.
ReadCLShort(p, k) ==
  [ p EXCEPT !.wire = Drop(@, k), !.left = @ - k, !.eob = TRUE,
             !.pending = k, !.consumed = @ + k,
             !.arrived = Append(@, k), !.state = "HANDLER" ]

\* One read of a Content-Length body: k bytes, at most what is left.
ReadCL(p, k) ==
  [ p EXCEPT !.wire = Drop(@, k), !.left = @ - k, !.eob = (p.left - k = 0),
             !.pending = k, !.consumed = @ + k,
             !.arrived = Append(@, k), !.state = "HANDLER" ]

\* One read of a chunked body: a whole chunk, or the zero chunk that ends
\* the body and leaves what follows it in the buffer.
ReadChunk(p) ==
  LET n == Head(p.wire).n
  IN IF n = 0
       THEN [ p EXCEPT !.wire = Tail(@), !.eob = TRUE, !.pending = 0,
                       !.state = "HANDLER" ]
       ELSE [ p EXCEPT !.wire = Drop(@, n + 1), !.pending = n,
                       !.consumed = @ + n, !.arrived = Append(@, n),
                       !.state = "HANDLER" ]

FirstRead(p, p1) ==
  [ p1 EXCEPT !.started = TRUE,
              !.queued_at_first_read =
                 IF p.started THEN @ ELSE p.queued ]

ParseFrame ==
  UNCHANGED << conn, sock, notified, offered, now, daemon, last, wire_in,
               read_buffer, request, response, keepalive, out, hist,
               shared, stream, dmn, chain, exec, rbuf, ext, mpi >>

\* URL -> HEADERS, or a malformed request line.
PParseUrl ==
  /\ parser.state = "URL"
  /\ parser.wire # << >>
  /\ parser' =
       IF Head(parser.wire).ok = "ok"
         THEN [ parser EXCEPT !.state = "HEADERS", !.wire = Tail(@),
                              !.ver = Head(parser.wire).ver ]
         ELSE BadRequest(parser)
  /\ ParseFrame

\* HEADERS -> HANDLER with the framing decided, or a bad header block.
PParseHeaders ==
  /\ parser.state = "HEADERS"
  /\ parser.wire # << >>
  /\ LET h == Head(parser.wire)
     IN parser' =
          IF h.ok = "ok"
            THEN [ parser EXCEPT !.state = "HANDLER", !.wire = Tail(@),
                                 !.expect = h.expect, !.framing = h.framing,
                                 !.left = h.n,
                                 !.eob = (h.framing = "cl" /\ h.n = 0) ]
            ELSE BadRequest(parser)
  /\ ParseFrame

\* The access handler is called: first with the headers, then with each
\* piece of upload data, then with upload size 0 at the end of the body,
\* where it answers at the latest.
PCallHandler ==
  /\ parser.state = "HANDLER"
  /\ ~ HandlerSuppressed(IF parser.queued THEN << 1 >> ELSE << >>)
  /\ \E q \in BOOLEAN :
       /\ (parser.calls > 0 /\ parser.eob /\ parser.pending = 0) => q
       /\ LET resp == IF q THEN << 1 >> ELSE << >>
          IN parser' =
               [ parser EXCEPT
                   !.calls = @ + 1,
                   !.queued = q,
                   !.delivered = IF parser.calls = 0 THEN @
                                 ELSE Append(@, parser.pending),
                   !.pending = 0,
                   !.state = NextAfterHandler(resp,
                                              IF parser.eob THEN 0 ELSE 1) ]
  /\ ParseFrame

\* HANDLER with a response queued: no call, the upload data is dropped.
PSkipHandler ==
  /\ parser.state = "HANDLER"
  /\ HandlerSuppressed(IF parser.queued THEN << 1 >> ELSE << >>)
  /\ parser' = [ parser EXCEPT
                   !.pending = 0,
                   !.state = NextAfterHandler(<< 1 >>,
                                              IF parser.eob THEN 0 ELSE 1) ]
  /\ ParseFrame

\* HTTP/1.1 100 Continue is written before the first body read.
PSendContinue ==
  /\ parser.state = "BODY_READ"
  /\ NeedContinue(parser)
  /\ parser' = [ parser EXCEPT !.interim = @ + 1,
                               !.interim_before = parser.consumed ]
  /\ ParseFrame

\* BODY_READ: one read of the body, or a malformed chunk-size line.
PBodyRead ==
  /\ parser.state = "BODY_READ"
  /\ ~ NeedContinue(parser)
  /\ parser.wire # << >>
  /\ \/ /\ parser.framing = "cl"
        /\ \E k \in 1..MaxBody :
             /\ k <= parser.left
             /\ k <= LeadingData(parser.wire)
             /\ parser' = FirstRead(parser, ReadCL(parser, k))
     \/ /\ parser.framing = "chunked"
        /\ Head(parser.wire).k = "size"
        /\ Head(parser.wire).ok = "ok"
        /\ LeadingData(Tail(parser.wire)) >= Head(parser.wire).n
        /\ parser' = FirstRead(parser, ReadChunk(parser))
     \/ /\ parser.framing = "chunked"
        /\ Head(parser.wire).ok # "ok" \/ Head(parser.wire).k # "size"
        /\ parser' = BadRequest(FirstRead(parser, parser))
  /\ ParseFrame

\* The client has closed and the request is not complete: the connection
\* ends in error.
PEof ==
  /\ parser.state \in { "URL", "HEADERS", "BODY_READ" }
  /\ parser.wire = << >>
  /\ parser.eof
  /\ parser' = [ parser EXCEPT !.state = "CLOSED", !.err = "eof",
                               !.err_at = parser.state ]
  /\ ParseFrame

\* SEND .. DONE: the final response is written.
PSend ==
  /\ parser.state = "SEND"
  /\ parser' = [ parser EXCEPT !.state = "DONE", !.final = @ + 1 ]
  /\ ParseFrame

InitParse ==
  /\ conn = [InitConn EXCEPT !.s_state = "MHDS_HANDSHAKE_COMPLETE"]
  /\ sock = InitSock
  /\ notified = << >>
  /\ offered = {}
  /\ now = 0
  /\ daemon = [ connection_timeout |-> 0, notify_completed |-> FALSE ]
  /\ last = [ op |-> "none", type |-> -1, hs |-> "none", ret |-> MHD_YES ]
  /\ wire_in = << >>
  /\ read_buffer = << >>
  /\ request = NoRequest
  /\ response = << >>
  /\ keepalive = TRUE
  /\ out = << >>
  /\ hist = InitHist
  /\ shared = NotInUse
  /\ stream = NotInUse
  /\ LaterPartsOff
  /\ \E w \in ParseWires, e \in BOOLEAN : parser = InitParser(w, e)

NextParse ==
  \/ PParseUrl
  \/ PParseHeaders
  \/ PCallHandler
  \/ PSkipHandler
  \/ PSendContinue
  \/ PBodyRead
  \/ PEof
  \/ PSend

SpecParse == InitParse /\ [][NextParse]_vars

\* ---------------------------------------------------------------------- C11
\* C11: for a request with Expect: 100-continue the interim response 100
\* Continue is written exactly once, before any body byte is read, iff the
\* request is HTTP/1.1 and the handler has not queued a response by the
\* first body read; for HTTP/1.0 it is never written.
C11_ContinueOnceBeforeBody ==
  /\ parser.interim <= 1
  /\ parser.ver = "HTTP/1.0" => parser.interim = 0
  /\ parser.interim = 1
       => /\ parser.expect
          /\ parser.ver = "HTTP/1.1"
          /\ parser.interim_before = 0
          /\ IF parser.started THEN ~ parser.queued_at_first_read
                               ELSE ~ parser.queued
  /\ ( parser.started /\ parser.expect /\ parser.ver = "HTTP/1.1"
       /\ ~ parser.queued_at_first_read )
       => parser.interim = 1

\* An HTTP/1.1 request with Expect: 100-continue and a body was answered
\* after 100 Continue and the whole body.
C11_Witness ==
  /\ parser.state = "DONE"
  /\ parser.expect
  /\ parser.interim = 1
  /\ parser.consumed > 0

\* ---------------------------------------------------------------------- C12
\* What the client declared: the Content-Length, or the sum of the chunk
\* lengths it wrote.
RECURSIVE WireChunkSum(_)
WireChunkSum(w) ==
  IF w = << >> THEN 0
  ELSE (IF Head(w).k = "size" /\ Head(w).ok = "ok" THEN Head(w).n ELSE 0)
         + WireChunkSum(Tail(w))

DeclaredLength ==
  IF parser.framing = "cl" THEN parser.sent[2].n
  ELSE WireChunkSum(parser.sent)

\* C12 as stated: for every request that completes without error the body
\* bytes delivered to the handler add up to the declared length, and a
\* chunked upload is delivered as its chunks in arrival order followed by
\* end-of-body.
C12_DeliveredEqualsDeclared ==
  (parser.state = "DONE" /\ parser.err = "none")
    => /\ SumSeq(parser.delivered) = DeclaredLength
       /\ parser.framing = "chunked"
            => parser.delivered = parser.arrived \o << 0 >>

\* C12 amended: for every request that completes without error the body
\* bytes consumed add up to the declared length (never more, and with fewer
\* the request does not complete) and what follows the body stays in the
\* buffer; the handler is given the pieces in arrival order, and when it has
\* been given end-of-body it has been given exactly the declared length.  A
\* handler that queued its response earlier is given no more of the body.
C12_ConsumedEqualsDeclared ==
  /\ parser.state \in {"HEADERS", "HANDLER", "BODY_READ", "SEND", "DONE"}
       => parser.consumed <= DeclaredLength
  /\ parser.state \in {"SEND", "DONE"}
       => /\ parser.err = "none"
          /\ parser.eob
          /\ parser.consumed = DeclaredLength
          /\ SumSeq(parser.arrived) = DeclaredLength
          /\ parser.wire =
               IF parser.sent[Len(parser.sent)].k = "line"
                 THEN << parser.sent[Len(parser.sent)] >> ELSE << >>
  /\ Len(parser.delivered) <= Len(parser.arrived) + 1
  /\ parser.delivered
       = SubSeq(parser.arrived \o << 0 >>, 1, Len(parser.delivered))
  /\ (parser.delivered # << >>
        /\ parser.delivered[Len(parser.delivered)] = 0)
       => SumSeq(parser.delivered) = DeclaredLength
  /\ (parser.err = "eof" /\ parser.err_at = "BODY_READ")
       => (parser.state = "CLOSED" /\ parser.final = 0)

\* A chunked upload of two chunks was delivered chunk by chunk, then
\* end-of-body, and answered; the next request's bytes are still there.
C12_Witness ==
  /\ parser.state = "DONE"
  /\ parser.framing = "chunked"
  /\ Len(parser.delivered) = 3
  /\ parser.delivered[3] = 0
  /\ parser.wire # << >>

MaxConns == 3

Conns == 1..MaxConns

\* A response as MHD_create_response_* returns it: one reference, the
\* application's; nothing freed; no thread inside a count operation.
\* pc[c]: idle, inc (inside the increment), queued, dec (inside the
\* decrement), finished, aborted.  app: live, dec, gone.
InitShared ==
  [ state |-> "ON",
    reference_count |-> 1,
    mutex |-> 0,                       \* 0: free, else the thread inside
    app |-> "live",
    pc |-> [ c \in Conns |-> "idle" ],
    tmp |-> [ c \in 0..MaxConns |-> 0 ],  \* the count a thread has loaded
    how |-> [ c \in Conns |-> "none" ],   \* finished or aborted
    freed |-> 0 ]                      \* runs of the free callback

\* A thread enters a count operation when the response's mutex is free.
EnterAlways(mutex) == TRUE

MayEnter(mutex) == mutex = 0

\* The resources are released when the count has reached 0.
FreeAlways(rc) == TRUE

FreeWhenZero(rc) == rc = 0

\* MHD_increment_response_rc, first half: lock, load.
IncBegin(s, c) ==
  [ s EXCEPT !.mutex = c, !.tmp[c] = s.reference_count, !.pc[c] = "inc" ]

\* MHD_increment_response_rc, second half: store, unlock.
IncEnd(s, c) ==
  [ s EXCEPT !.reference_count = s.tmp[c] + 1, !.mutex = 0,
             !.pc[c] = "queued" ]

\* MHD_destroy_response, first half: lock, load.
DecBegin(s, t) ==
  [ s EXCEPT !.mutex = IF t = 0 THEN -1 ELSE t,
             !.tmp[t] = s.reference_count ]

\* MHD_destroy_response, second half: store the count less one, unlock,
\* and release the resources when that was the last reference.
DecEnd(s, t) ==
  LET rc == s.tmp[t] - 1
  IN [ s EXCEPT !.reference_count = rc, !.mutex = 0,
                !.freed = IF FreeWhenZero(rc) THEN @ + 1 ELSE @ ]

RcFrame ==
  UNCHANGED << conn, sock, notified, offered, now, daemon, last, wire_in,
               read_buffer, request, response, keepalive, out, hist,
               parser, stream, dmn, chain, exec, rbuf, ext, mpi >>

\* A connection's handler queues the response (the application still holds
\* its own reference while it does).
RcQueueBegin ==
  /\ \E c \in Conns :
       /\ shared.pc[c] = "idle"
       /\ shared.app = "live"
       /\ MayEnter(shared.mutex)
       /\ shared' = IncBegin(shared, c)
  /\ RcFrame

RcQueueEnd ==
  /\ \E c \in Conns :
       /\ shared.pc[c] = "inc"
       /\ shared' = IncEnd(shared, c)
  /\ RcFrame

\* A connection has sent the response, or aborts: it drops its reference.
RcReleaseBegin ==
  /\ \E c \in Conns, h \in {"finished", "aborted"} :
       /\ shared.pc[c] = "queued"
       /\ MayEnter(shared.mutex)
       /\ shared' = [ DecBegin(shared, c) EXCEPT !.pc[c] = "dec",
                                                 !.how[c] = h ]
  /\ RcFrame

RcReleaseEnd ==
  /\ \E c \in Conns :
       /\ shared.pc[c] = "dec"
       /\ shared' = [ DecEnd(shared, c) EXCEPT !.pc[c] = shared.how[c] ]
  /\ RcFrame

\* The application calls MHD_destroy_response, once, when none of its
\* handlers is in the middle of queuing the response.
RcDestroyBegin ==
  /\ shared.app = "live"
  /\ \A c \in Conns : shared.pc[c] # "inc"
  /\ MayEnter(shared.mutex)
  /\ shared' = [ DecBegin(shared, 0) EXCEPT !.app = "dec" ]
  /\ RcFrame

RcDestroyEnd ==
  /\ shared.app = "dec"
  /\ shared' = [ DecEnd(shared, 0) EXCEPT !.app = "gone" ]
  /\ RcFrame

InitRc ==
  /\ conn = InitConn
  /\ sock = InitSock
  /\ notified = << >>
  /\ offered = {}
  /\ now = 0
  /\ daemon = [ connection_timeout |-> 0, notify_completed |-> FALSE ]
  /\ last = [ op |-> "none", type |-> -1, hs |-> "none", ret |-> MHD_YES ]
  /\ wire_in = << >>
  /\ read_buffer = << >>
  /\ request = NoRequest
  /\ response = << >>
  /\ keepalive = TRUE
  /\ out = << >>
  /\ hist = InitHist
  /\ parser = NotInUse
  /\ stream = NotInUse
  /\ LaterPartsOff
  /\ shared = InitShared

NextRc ==
  \/ RcQueueBegin
  \/ RcQueueEnd
  \/ RcReleaseBegin
  \/ RcReleaseEnd
  \/ RcDestroyBegin
  \/ RcDestroyEnd

SpecRc == InitRc /\ [][NextRc]_vars

\* ---------------------------------------------------------------------- C14
\* No thread is inside a count operation.
RcQuiescent ==
  /\ shared.app # "dec"
  /\ \A c \in Conns : shared.pc[c] \notin {"inc", "dec"}

Holders == { c \in Conns : shared.pc[c] \in {"queued", "dec"} }

\* C14 as stated: under every interleaving of the threads that queue,
\* finish or abort the shared response, its reference count equals the
\* number of connections that have queued it and not yet finished or
\* aborted it.
C14_RcEqualsQueuedConnections ==
  RcQuiescent => shared.reference_count = Cardinality(Holders)

\* C14 amended: the reference count equals the number of connections that
\* have queued the response and not yet finished or aborted it, plus one
\* for the application until it has called MHD_destroy_response; no
\* increment or decrement is lost under any interleaving.
C14_RcEqualsHoldersPlusCreator ==
  /\ RcQuiescent
       => shared.reference_count
            = Cardinality(Holders) + (IF shared.app = "live" THEN 1 ELSE 0)
  /\ shared.reference_count >= 0
  /\ shared.mutex # 0
       <=> (shared.app = "dec"
            \/ \E c \in Conns : shared.pc[c] \in {"inc", "dec"})

\* Two connections hold the response, a third has finished, the
\* application has destroyed its reference: the count is 2.
C14_Witness ==
  /\ RcQuiescent
  /\ shared.app = "gone"
  /\ Cardinality(Holders) = 2
  /\ shared.reference_count = 2
  /\ \E c \in Conns : shared.pc[c] \in {"finished", "aborted"}

\* ---------------------------------------------------------------------- C15
\* C15: the free callback is run and the data freed exactly once, when the
\* reference count reaches 0, and never while a connection still has the
\* response queued: MHD_destroy_response on a response that is queued frees
\* nothing that the connection needs.
C15_FreedOnceAtZero ==
  /\ shared.freed <= 1
  /\ shared.freed = 1 => (Holders = {} /\ shared.app = "gone")
  /\ RcQuiescent => ((shared.freed = 1) <=> (shared.reference_count = 0))
  /\ (shared.app = "gone" /\ Holders # {}) => shared.freed = 0

\* MHD_destroy_response was called while a connection had the response
\* queued; nothing was freed then, and the data was freed once that
\* connection had finished.
C15_Witness ==
  /\ shared.freed = 1
  /\ shared.app = "gone"
  /\ shared.tmp[0] = 2
  /\ \E c \in Conns : shared.pc[c] = "finished"

(***************************************************************************)
(* Part 5 (specification SpecReader): one queuing of a callback response   *)
(* being sent: the calls of its MHD_ContentReaderCallback and what the     *)
(* library does with each return value, in each of the daemon's three      *)
(* modes.  Modelled from the callback's documentation in microhttpd.h      *)
(* (the code that calls the reader is not among the sources).              *)
(***************************************************************************)

\* Most reader calls for one queuing, the largest "max" the library
\* offers, and the largest declared size of a response.
MaxReads == 3
MaxRet == 2
MaxSize == 2

\* enum MHD_OPTION: the flags that choose the daemon's mode.
MHD_USE_THREAD_PER_CONNECTION == 4
MHD_USE_SELECT_INTERNALLY == 8

\* The mode a daemon runs in: with neither flag the client drives the
\* daemon through MHD_run.
DaemonModes == { 0, MHD_USE_THREAD_PER_CONNECTION, MHD_USE_SELECT_INTERNALLY }

\* What the reader may return when offered max bytes.
ReaderReturns(max) == { -1, 0 } \cup 1..max

\* pos moves on by what the reader has put into the buffer.
AdvanceAtLeastOne(pos, n) == pos + (IF n > 0 THEN n ELSE 1)

Advance(pos, n) == IF n > 0 THEN pos + n ELSE pos

\* A library that treats a return of 0 as the design document words it:
\* fatal when the client drives the daemon, retried otherwise.
OnZeroFatalInExternal(s) ==
  IF s.mode = 0 THEN [ s EXCEPT !.state = "ABORTED" ]
  ELSE IF s.mode = MHD_USE_THREAD_PER_CONNECTION THEN s
  ELSE [ s EXCEPT !.wait = TRUE ]

\* A return of 0: try again at once in thread-per-connection mode, in the
\* next round when MHD_run is used, abort () in internal select mode.
OnZero(s) ==
  IF s.mode = MHD_USE_THREAD_PER_CONNECTION THEN s
  ELSE IF s.mode = MHD_USE_SELECT_INTERNALLY
    THEN [ s EXCEPT !.state = "ABORTED" ]
  ELSE [ s EXCEPT !.wait = TRUE ]

\* A library that goes on after the reader has returned -1.
IgnoreError(s) == s

\* A return of -1: no more reads, the connection with the client is closed.
OnError(s) == [ s EXCEPT !.state = "CLOSED" ]

\* The bytes still to come of a response of known size; MaxRet when the
\* size is unknown (-1).
Offered(s) ==
  IF s.size = -1 THEN MaxRet
  ELSE IF s.size - s.pos < MaxRet THEN s.size - s.pos ELSE MaxRet

InitStream(mode, size) ==
  [ state |-> "SEND_BODY", mode |-> mode, size |-> size,
    pos |-> 0,            \* position in the data stream
    appended |-> 0,       \* bytes put into the write buffer
    wait |-> FALSE,       \* nothing more in this round of MHD_run
    round |-> 0,          \* rounds of MHD_run so far
    rets |-> << >>,       \* what the reader returned, call by call
    args |-> << >>,       \* the pos it was called with, call by call
    rounds |-> << >> ]    \* the round of each call

\* One call of the content reader and what the library does with its
\* return value n.
ReaderCalled(s, n) ==
  LET s1 == [ s EXCEPT !.rets = Append(@, n), !.args = Append(@, s.pos),
                       !.rounds = Append(@, s.round),
                       !.pos = Advance(s.pos, n),
                       !.appended = IF n > 0 THEN @ + n ELSE @ ]
  IN IF n = -1 THEN OnError(s1)
     ELSE IF n = 0 THEN OnZero(s1)
     ELSE IF s1.size # -1 /\ s1.pos = s1.size THEN [ s1 EXCEPT !.state = "DONE" ]
     ELSE s1

StreamFrame ==
  UNCHANGED << conn, sock, notified, offered, now, daemon, last, wire_in,
               read_buffer, request, response, keepalive, out, hist,
               parser, shared, dmn, chain, exec, rbuf, ext, mpi >>

\* SEND_BODY: the library calls the reader for more.
ReaderCall ==
  /\ stream.state = "SEND_BODY"
  /\ ~ stream.wait
  /\ Len(stream.rets) < MaxReads
  /\ \E n \in ReaderReturns(Offered(stream)) :
       stream' = ReaderCalled(stream, n)
  /\ StreamFrame

\* The client calls MHD_run again.
NextRound ==
  /\ stream.state = "SEND_BODY"
  /\ stream.mode = 0
  /\ stream.wait
  /\ stream' = [ stream EXCEPT !.wait = FALSE, !.round = @ + 1 ]
  /\ StreamFrame

InitReader ==
  /\ conn = InitConn
  /\ sock = InitSock
  /\ notified = << >>
  /\ offered = {}
  /\ now = 0
  /\ daemon = [ connection_timeout |-> 0, notify_completed |-> FALSE ]
  /\ last = [ op |-> "none", type |-> -1, hs |-> "none", ret |-> MHD_YES ]
  /\ wire_in = << >>
  /\ read_buffer = << >>
  /\ request = NoRequest
  /\ response = << >>
  /\ keepalive = TRUE
  /\ out = << >>
  /\ hist = InitHist
  /\ parser = NotInUse
  /\ shared = NotInUse
  /\ LaterPartsOff
  /\ \E m \in DaemonModes, z \in {-1} \cup 1..MaxSize :
       stream = InitStream(m, z)

NextReader ==
  \/ ReaderCall
  \/ NextRound

SpecReader == InitReader /\ [][NextReader]_vars

(***************************************************************************)
(* Claims C16 to C19: the content reader's contract (SpecReader).          *)
(***************************************************************************)

\* The sum of the non-negative values among the first k returns.
RECURSIVE NonNegSum(_, _)
NonNegSum(rets, k) ==
  IF k = 0 THEN 0
  ELSE NonNegSum(rets, k - 1) + (IF rets[k] > 0 THEN rets[k] ELSE 0)

\* C16: on every call of the content reader for one queuing of a callback
\* response, the pos argument equals the sum of all non-negative values the
\* reader has returned so far for that queuing; a return of 0 or a negative
\* return does not advance pos.
C16_PosIsSumOfReturns ==
  stream.state # "OFF" =>
    /\ \A i \in DOMAIN stream.args :
         stream.args[i] = NonNegSum(stream.rets, i - 1)
    /\ stream.pos = NonNegSum(stream.rets, Len(stream.rets))

\* C16 witness: the reader is called a third time after a positive return
\* and a return of 0, with the pos the first return left.
C16_Witness ==
  /\ stream.state # "OFF"
  /\ Len(stream.rets) = 3
  /\ stream.rets[1] > 0
  /\ stream.rets[2] = 0
  /\ stream.args[3] = stream.rets[1]

\* The step is a call of the reader that returned n.
ReaderReturned(n) ==
  /\ stream.state = "SEND_BODY"
  /\ stream'.state # "OFF"
  /\ Len(stream'.rets) = Len(stream.rets) + 1
  /\ stream'.rets[Len(stream'.rets)] = n

\* C17 (as stated): when the client drives the daemon (get_fdset and run),
\* a content reader that returns 0 aborts the process or terminates the
\* connection; the reader is not simply called again.
C17_ZeroInExternalModeIsFatal ==
  [][ (ReaderReturned(0) /\ stream.mode = 0)
        => stream'.state \in { "ABORTED", "CLOSED" } ]_vars

\* C18: a content reader that returns 0 makes the library try again, at
\* once in thread-per-connection mode and in the next round when MHD_run is
\* used, without closing the connection; only a daemon in internal select
\* mode aborts the program on a return of 0.
C18_ZeroRetriedUnlessInternalSelect ==
  /\ [] ( stream.state # "OFF" =>
            /\ stream.state = "ABORTED" <=>
                 ( /\ stream.mode = MHD_USE_SELECT_INTERNALLY
                   /\ stream.rets # << >>
                   /\ stream.rets[Len(stream.rets)] = 0 )
            /\ \A i \in DOMAIN stream.rets :
                 (stream.rets[i] = 0 /\ i < Len(stream.rets)) =>
                   /\ stream.mode # MHD_USE_SELECT_INTERNALLY
                   /\ stream.mode = 0
                        => stream.rounds[i + 1] = stream.rounds[i] + 1
                   /\ stream.mode = MHD_USE_THREAD_PER_CONNECTION
                        => stream.rounds[i + 1] = stream.rounds[i] )
  /\ [][ ReaderReturned(0) =>
           IF stream.mode = MHD_USE_SELECT_INTERNALLY
             THEN stream'.state = "ABORTED"
             ELSE /\ stream'.state = "SEND_BODY"
                  /\ stream'.wait <=> stream.mode = 0 ]_vars

\* C18 witness: under MHD_run the reader has returned 0 and is called again
\* in the next round, the connection still sending.
C18_Witness ==
  /\ stream.state = "SEND_BODY"
  /\ stream.mode = 0
  /\ Len(stream.rets) = 2
  /\ stream.rets[1] = 0
  /\ stream.rounds = << 0, 1 >>

\* C19: when the content reader returns -1 the library never calls it again
\* for that queuing and closes the connection with the client, in the
\* middle of the stream if data was already sent; a positive return n of at
\* most max appends exactly n bytes to the write buffer.
C19_ErrorClosesPositiveAppends ==
  /\ [] ( stream.state # "OFF" =>
            /\ \A i \in DOMAIN stream.rets :
                 stream.rets[i] = -1 =>
                   (i = Len(stream.rets) /\ stream.state = "CLOSED")
            /\ stream.state = "CLOSED" =>
                 (stream.rets # << >> /\ stream.rets[Len(stream.rets)] = -1)
            /\ stream.appended = NonNegSum(stream.rets, Len(stream.rets)) )
  /\ [][ \A n \in 1..MaxRet :
           ReaderReturned(n) =>
             /\ n <= Offered(stream)
             /\ stream'.appended = stream.appended + n ]_vars

\* C19 witness: the reader returned -1 after data had been appended, and
\* the connection is closed short of the declared size.
C19_Witness ==
  /\ stream.state = "CLOSED"
  /\ Len(stream.rets) = 2
  /\ stream.rets[1] > 0
  /\ stream.rets[2] = -1
  /\ stream.appended = stream.rets[1]
  /\ stream.size # -1
  /\ stream.appended < stream.size

(***************************************************************************)
(* Claims C26, C27 and C30: the secure read handler (Spec).                *)
(***************************************************************************)

\* The read handler is called with a record pending on a live connection.
ReadOfPendingRecord ==
  /\ HandleRead
  /\ conn.s_state # "MHDS_CONNECTION_CLOSED"
  /\ conn.socket_fd # -1
  /\ sock.inq # << >>

\* C26: a TLS handshake step that cannot complete yet (gnutls_handshake
\* returns a retryable result, neither 0 nor a fatal error) does not fail
\* the connection: s_state does not become MHDS_HANDSHAKE_FAILED, the
\* socket is kept, and the handshake can be resumed on a later read.
C26_RetryableHandshakeKeepsConnection ==
  [][ (ReadOfPendingRecord /\ last'.hs = "again")
        => /\ conn'.s_state # "MHDS_HANDSHAKE_FAILED"
           /\ conn'.socket_fd # -1
           /\ conn'.session_live ]_vars

\* C27: when the read handler processes a TLS alert record, an alert of
\* fatal level, whatever its description, marks the session invalid and
\* not resumable, sets socket_fd to -1 and returns MHD_NO; an alert that is
\* neither close_notify nor fatal leaves the connection open and returns
\* MHD_YES.
C27_AlertLevelDecides ==
  [][ (ReadOfPendingRecord /\ Head(sock.inq).type = GNUTLS_ALERT)
        => IF Head(sock.inq).level = GNUTLS_AL_FATAL
             THEN /\ last'.ret = MHD_NO
                  /\ conn'.socket_fd = -1
                  /\ ~ conn'.valid_connection
                  /\ ~ conn'.resumable
             ELSE Head(sock.inq).desc # GNUTLS_A_CLOSE_NOTIFY
                    => /\ last'.ret = MHD_YES
                       /\ conn'.socket_fd # -1 ]_vars

\* C30: every call of the secure read handler with a record pending makes
\* progress: it takes something off the transport or closes or invalidates
\* the connection; it never returns MHD_YES with the same unread record
\* still at the head of the socket.
C30_ReadMakesProgress ==
  [][ ReadOfPendingRecord
        => \/ sock'.inq # sock.inq
           \/ conn'.socket_fd = -1
           \/ last'.ret = MHD_NO ]_vars

(***************************************************************************)
(* Part 8 (specifications SpecExec, SpecExecLive): one invocation of       *)
(* MHDS_connection_handle_write or MHDS_connection_handle_idle at a time,  *)
(* statement by statement, from every value of s_state.  The handlers work *)
(* on the connection of Part 1; exec holds the handler running and the     *)
(* statement it is at.                                                     *)
(***************************************************************************)
ExecReady == [ state |-> "READY", fn |-> "none", pc |-> "none", ret |-> MHD_YES ]

ExecFrame ==
  UNCHANGED << offered, now, daemon, last, wire_in, read_buffer, request,
               response, keepalive, out, hist, parser, shared, stream,
               dmn, chain, rbuf, ext, mpi >>

\* The event loop calls MHDS_connection_handle_write (line 257).
ExecCallWrite ==
  /\ exec.state = "READY"
  /\ exec' = [ state |-> "RUN", fn |-> "write", pc |-> "last_activity",
               ret |-> MHD_YES ]
  /\ UNCHANGED << conn, sock, notified >>
  /\ ExecFrame

\* The event loop calls MHDS_connection_handle_idle (line 106).
ExecCallIdle ==
  /\ exec.state = "READY"
  /\ exec' = [ state |-> "RUN", fn |-> "idle", pc |-> "switch",
               ret |-> MHD_YES ]
  /\ UNCHANGED << conn, sock, notified >>
  /\ ExecFrame

\* MHDS_connection_handle_write, line 259: last_activity = time (NULL).
ExecWriteActivity ==
  /\ exec.state = "RUN" /\ exec.fn = "write" /\ exec.pc = "last_activity"
  /\ conn' = [ conn EXCEPT !.last_activity = now ]
  /\ exec' = [ exec EXCEPT !.pc = "switch" ]
  /\ UNCHANGED << sock, notified >>
  /\ ExecFrame

\* MHDS_connection_handle_write, lines 260-281: one turn of while (1).  In
\* the four states the switch names the connection is closed when the
\* socket is still there and MHD_NO is returned; in any other state no case
\* matches, the switch is left and the loop starts its next turn.
ExecWriteLoop ==
  /\ exec.state = "RUN" /\ exec.fn = "write" /\ exec.pc = "switch"
  /\ IF WriteReturns(conn)
       THEN /\ Commit([ m |-> IF conn.socket_fd # -1
                                THEN connection_close_error(Machine, daemon)
                                ELSE Machine ])
            /\ exec' = [ ExecReady EXCEPT !.ret = MHD_NO ]
       ELSE UNCHANGED << conn, sock, notified, offered, exec >>
  /\ UNCHANGED << now, daemon, last, wire_in, read_buffer, request,
                  response, keepalive, out, hist, parser, shared, stream,
                  dmn, chain, rbuf, ext, mpi >>

\* MHDS_connection_handle_idle, lines 109-132: the one turn of its
\* while (1), which every path leaves by the break at line 131.
ExecIdleSwitch ==
  /\ exec.state = "RUN" /\ exec.fn = "idle" /\ exec.pc = "switch"
  /\ Commit([ m |-> IdleSwitch(Machine, daemon) ])
  /\ exec' = [ exec EXCEPT !.pc = "timeout" ]
  /\ UNCHANGED << now, daemon, last, wire_in, read_buffer, request,
                  response, keepalive, out, hist, parser, shared, stream,
                  dmn, chain, rbuf, ext, mpi >>

\* MHDS_connection_handle_idle, lines 134-142: the timeout test and return.
ExecIdleTimeout ==
  /\ exec.state = "RUN" /\ exec.fn = "idle" /\ exec.pc = "timeout"
  /\ IF IdleTimedOut(conn, daemon, now)
       THEN /\ Commit([ m |-> connection_close_error(Machine, daemon) ])
            /\ exec' = [ ExecReady EXCEPT !.ret = MHD_NO ]
       ELSE /\ UNCHANGED << conn, sock, notified, offered >>
            /\ exec' = ExecReady
  /\ UNCHANGED << now, daemon, last, wire_in, read_buffer, request,
                  response, keepalive, out, hist, parser, shared, stream,
                  dmn, chain, rbuf, ext, mpi >>

InitExec ==
  /\ \E s \in MHDS_STATES : conn = [InitConn EXCEPT !.s_state = s]
  /\ sock = InitSock
  /\ notified = << >>
  /\ offered = {}
  /\ now = 0
  /\ daemon \in Daemons
  /\ last = [ op |-> "none", type |-> -1, hs |-> "none", ret |-> MHD_YES ]
  /\ wire_in = << >>
  /\ read_buffer = << >>
  /\ request = NoRequest
  /\ response = << >>
  /\ keepalive = TRUE
  /\ out = << >>
  /\ hist = InitHist
  /\ parser = NotInUse
  /\ shared = NotInUse
  /\ stream = NotInUse
  /\ dmn = NotInUse
  /\ chain = NotInUse
  /\ rbuf = NotInUse
  /\ ext = NotInUse
  /\ mpi = NotInUse
  /\ exec = ExecReady

NextExec ==
  \/ Tick
  \/ ExecCallWrite
  \/ ExecCallIdle
  \/ ExecWriteActivity
  \/ ExecWriteLoop
  \/ ExecIdleSwitch
  \/ ExecIdleTimeout

SpecExec == InitExec /\ [][NextExec]_vars

\* The thread that runs a handler keeps running it.
SpecExecLive ==
  /\ SpecExec
  /\ WF_vars(ExecWriteActivity)
  /\ WF_vars(ExecWriteLoop)
  /\ WF_vars(ExecIdleSwitch)
  /\ WF_vars(ExecIdleTimeout)

\* C28: MHDS_connection_handle_write and MHDS_connection_handle_idle return
\* after a bounded number of steps for every value s_state can take, the
\* reply-sending states not listed in their switch included: an invocation
\* never spins.
C28_HandlersReturn ==
  (exec.state = "RUN") ~> (exec.state = "READY")

(***************************************************************************)
(* Part 9 (specification SpecRecv): the read buffer of a secure connection *)
(* across transport receives.  MHDS_con_read is the receive callback       *)
(* (connection->recv_cls); the HTTP layer that calls it and advances       *)
(* read_buffer_offset is modelled from the design of the read buffer.      *)
(***************************************************************************)

\* The largest read_buffer_size, and the most bytes a client has in flight.
MaxBufSize == 3
MaxWire == 4

\* gnutls_record_recv (session, data, sizeofdata): at most sizeofdata of
\* the bytes pending are stored at data.
gnutls_record_recv(pending, sizeofdata) ==
  IF pending < sizeofdata THEN pending ELSE sizeofdata

\* MHDS_con_read (lines 84-92): the destination is
\* &read_buffer[read_buffer_offset], the length passed is read_buffer_size.
MHDS_con_read(b) ==
  LET size == gnutls_record_recv(b.wire, b.read_buffer_size)
  IN [ b EXCEPT !.dest = b.read_buffer_offset,
                !.asked = b.read_buffer_size,
                !.got = size,
                !.wire = @ - size ]

InitBuf(size, wire) ==
  [ state |-> "ON",
    read_buffer_size |-> size,    \* bytes allocated to read_buffer
    read_buffer_offset |-> 0,     \* bytes of read_buffer in use
    wire |-> wire,                \* bytes the client has sent, not yet received
    dest |-> 0,                   \* index the last receive stored at
    asked |-> 0,                  \* length the last receive was called with
    got |-> 0 ]                   \* what the last receive returned

RecvFrame ==
  UNCHANGED << conn, sock, notified, offered, now, daemon, last, wire_in,
               read_buffer, request, response, keepalive, out, hist,
               parser, shared, stream, dmn, chain, exec,
               ext, mpi >>

\* The client sends one more byte.
BufArrive ==
  /\ rbuf.state = "ON"
  /\ rbuf.wire < MaxWire
  /\ rbuf' = [ rbuf EXCEPT !.wire = @ + 1 ]
  /\ RecvFrame

\* The connection is readable and its buffer has room: the HTTP layer
\* calls recv_cls and adds what it returns to read_buffer_offset.
BufRecv ==
  /\ rbuf.state = "ON"
  /\ rbuf.wire > 0
  /\ rbuf.read_buffer_offset < rbuf.read_buffer_size
  /\ LET b == MHDS_con_read(rbuf)
     IN rbuf' = [ b EXCEPT !.read_buffer_offset = @ + b.got ]
  /\ RecvFrame

\* The parser takes k bytes off the front of the buffer.
BufParse ==
  /\ rbuf.state = "ON"
  /\ rbuf.read_buffer_offset > 0
  /\ rbuf.read_buffer_offset <= rbuf.read_buffer_size
  /\ \E k \in 1..rbuf.read_buffer_offset :
       rbuf' = [ rbuf EXCEPT !.read_buffer_offset = @ - k ]
  /\ RecvFrame

InitRecv ==
  /\ conn = InitConn
  /\ sock = InitSock
  /\ notified = << >>
  /\ offered = {}
  /\ now = 0
  /\ daemon = [ connection_timeout |-> 0, notify_completed |-> FALSE ]
  /\ last = [ op |-> "none", type |-> -1, hs |-> "none", ret |-> MHD_YES ]
  /\ wire_in = << >>
  /\ read_buffer = << >>
  /\ request = NoRequest
  /\ response = << >>
  /\ keepalive = TRUE
  /\ out = << >>
  /\ hist = InitHist
  /\ parser = NotInUse
  /\ shared = NotInUse
  /\ stream = NotInUse
  /\ dmn = NotInUse
  /\ chain = NotInUse
  /\ exec = NotInUse
  /\ ext = NotInUse
  /\ mpi = NotInUse
  /\ \E size \in 1..MaxBufSize, wire \in 0..MaxWire : rbuf = InitBuf(size, wire)

NextRecv ==
  \/ BufArrive
  \/ BufRecv
  \/ BufParse

SpecRecv == InitRecv /\ [][NextRecv]_vars

\* C29: a transport receive never asks for more bytes than the free space
\* left in the read buffer: the length passed with the destination
\* &read_buffer[read_buffer_offset] is at most read_buffer_size -
\* read_buffer_offset, so the bytes in use never exceed the buffer's size.
C29_ReceiveWithinFreeSpace ==
  rbuf.state # "OFF" =>
    /\ rbuf.asked <= rbuf.read_buffer_size - rbuf.dest
    /\ rbuf.read_buffer_offset <= rbuf.read_buffer_size

(***************************************************************************)
(* Part 7 (specification SpecVerify): MHD_gnutls_x509_crt_list_verify and  *)
(* the functions it is made of (x509 verify.c), one certificate of the     *)
(* list at a time.  What the ASN.1 and signature routines find in a        *)
(* certificate is drawn when the certificate is examined.                  *)
(***************************************************************************)

\* The longest certificate list.
MaxChain == 3

\* MHD_gnutls_certificate_verify_flags, as a set of the bits that are on.
VerifyFlags ==
  { "GNUTLS_VERIFY_DISABLE_CA_SIGN", "GNUTLS_VERIFY_ALLOW_X509_V1_CA_CRT",
    "GNUTLS_VERIFY_ALLOW_ANY_X509_V1_CA_CRT",
    "GNUTLS_VERIFY_ALLOW_SIGN_RSA_MD2", "GNUTLS_VERIFY_ALLOW_SIGN_RSA_MD5" }

\* flags ^= bit
FlagXor(flags, bit) ==
  IF bit \in flags THEN flags \ {bit} ELSE flags \cup {bit}

\* What the routines called by MHD__gnutls_verify_certificate2 return for
\* one certificate and the issuer it is held against:
\*   found: find_issuer finds an issuer among the candidates;
\*   issuer_version: MHD_gnutls_x509_crt_get_version (issuer), negative on error;
\*   ca: check_if_ca, 1, 0, or a negative error of the ASN.1 routines;
\*   data: MHD__gnutls_x509_get_signed_data and _get_signature, negative on error;
\*   sig: MHD__gnutls_x509_verify_signature, 1, 0, or negative on error;
\*   self: is_issuer (cert, cert), 1, 0, or negative on error;
\*   sigalg: MHD_gnutls_x509_crt_get_signature_algorithm (cert).
CertFacts ==
  [ found : BOOLEAN, issuer_version : {-1, 1, 3}, ca : {-1, 0, 1},
    data : {-1, 0}, sig : {-1, 0, 1}, self : {-1, 0, 1},
    sigalg : { "GNUTLS_SIGN_RSA_MD2", "GNUTLS_SIGN_RSA_MD5",
               "GNUTLS_SIGN_RSA_SHA1" } ]

\* MHD__gnutls_verify_certificate2 (lines 222-340): what it returns and what
\* it leaves in *output.
MHD__gnutls_verify_certificate2(f, tcas_size, flags) ==
  IF tcas_size < 1 \/ ~ f.found
    THEN [ ret |-> 0,
           output |-> { "GNUTLS_CERT_SIGNER_NOT_FOUND", "GNUTLS_CERT_INVALID" } ]
  ELSE IF f.issuer_version < 0
    THEN [ ret |-> f.issuer_version, output |-> {} ]
  ELSE IF /\ "GNUTLS_VERIFY_DISABLE_CA_SIGN" \notin flags
          /\ ~ ( "GNUTLS_VERIFY_ALLOW_X509_V1_CA_CRT" \in flags
                 /\ f.issuer_version = 1 )
          /\ f.ca = 0
    THEN [ ret |-> 0,
           output |-> { "GNUTLS_CERT_SIGNER_NOT_CA", "GNUTLS_CERT_INVALID" } ]
  ELSE IF f.data < 0
    THEN [ ret |-> f.data, output |-> {} ]
  ELSE [ ret |-> f.sig,
         output |->
           (IF f.sig = 0 THEN { "GNUTLS_CERT_INVALID" } ELSE {})
           \cup
           (IF /\ f.self = 0
               /\ \/ /\ f.sigalg = "GNUTLS_SIGN_RSA_MD2"
                     /\ "GNUTLS_VERIFY_ALLOW_SIGN_RSA_MD2" \notin flags
                  \/ /\ f.sigalg = "GNUTLS_SIGN_RSA_MD5"
                     /\ "GNUTLS_VERIFY_ALLOW_SIGN_RSA_MD5" \notin flags
              THEN { "GNUTLS_CERT_INSECURE_ALGORITHM", "GNUTLS_CERT_INVALID" }
              ELSE {}) ]

\* A call of MHD_gnutls_x509_crt_list_verify: its arguments, where it is,
\* and what it has done.  Certificates are numbered as the code indexes
\* them, from 0; revoked are the certificates of the list that a supplied
\* CRL lists.
InitChain(null, len, tcas, revoked, flags) ==
  [ state |-> "CALLED",
    cert_list_null |-> null, cert_list_length |-> len,
    CA_list_length |-> tcas, revoked |-> revoked,
    flags |-> flags,
    clist_size |-> len, i |-> 0, status |-> {},
    checked |-> {},      \* verifications made: certificate, issuer, result
    insecure |-> {},     \* certificates for which the test of lines 317-327
                         \* was reached and found an algorithm not allowed
    v1_links |-> {},     \* certificates verified against their successor
                         \* with GNUTLS_VERIFY_ALLOW_X509_V1_CA_CRT on
    verify |-> {},       \* *verify
    ret |-> "none" ]

VerifyFrame ==
  UNCHANGED << conn, sock, notified, offered, now, daemon, last, wire_in,
               read_buffer, request, response, keepalive, out, hist,
               parser, shared, stream, dmn, exec, rbuf, ext, mpi >>

\* MHD_gnutls_x509_crt_list_verify, lines 727-728.
VerifyEntry ==
  /\ chain.state = "CALLED"
  /\ chain' =
       IF chain.cert_list_null \/ chain.cert_list_length = 0
         THEN [ chain EXCEPT !.state = "DONE",
                             !.ret = "GNUTLS_E_NO_CERTIFICATE_FOUND" ]
         ELSE [ chain EXCEPT !.state = "LAST" ]
  /\ VerifyFrame

\* MHD__gnutls_x509_verify_certificate returns status; lines 732-737 store
\* it in *verify and return 0.
VerifyReturn(c, status) ==
  [ c EXCEPT !.state = "DONE", !.status = status, !.verify = status,
             !.ret = "0" ]

\* MHD__gnutls_x509_verify_certificate, lines 389-414: the last certificate
\* against the trusted CAs, then the test for a self-signed last
\* certificate.
VerifyLast ==
  /\ chain.state = "LAST"
  /\ \E f \in CertFacts :
       LET last_cert == chain.clist_size - 1
           r == MHD__gnutls_verify_certificate2(f, chain.CA_list_length,
                                                chain.flags)
           c1 == [ chain EXCEPT
                     !.checked =
                       @ \cup { [ cert |-> last_cert, issuer |-> "CA",
                                  ret |-> r.ret ] },
                     !.insecure =
                       IF "GNUTLS_CERT_INSECURE_ALGORITHM" \in r.output
                         THEN @ \cup { last_cert } ELSE @ ]
           size == IF f.self > 0 /\ c1.clist_size > 0
                     THEN c1.clist_size - 1 ELSE c1.clist_size
       IN chain' =
            IF r.ret = 0
              THEN VerifyReturn(c1, r.output \cup { "GNUTLS_CERT_INVALID" })
              ELSE [ c1 EXCEPT !.state = "PATH", !.clist_size = size,
                               !.i = size - 1 ]
  /\ VerifyFrame

\* MHD__gnutls_x509_verify_certificate, lines 418-437: one turn of the loop
\* over the path, or the return after it.
VerifyPath ==
  /\ chain.state = "PATH"
  /\ IF chain.i > 0
       THEN \E f \in CertFacts :
              LET flags ==
                    IF "GNUTLS_VERIFY_ALLOW_ANY_X509_V1_CA_CRT" \notin chain.flags
                      THEN FlagXor(chain.flags,
                                   "GNUTLS_VERIFY_ALLOW_X509_V1_CA_CRT")
                      ELSE chain.flags
                  r == MHD__gnutls_verify_certificate2(f, 1, flags)
                  c1 == [ chain EXCEPT !.flags = flags,
                            !.checked =
                              @ \cup { [ cert |-> chain.i - 1,
                                         issuer |-> chain.i,
                                         ret |-> r.ret ] },
                            !.insecure =
                              IF "GNUTLS_CERT_INSECURE_ALGORITHM" \in r.output
                                THEN @ \cup { chain.i - 1 } ELSE @,
                            !.v1_links =
                              IF "GNUTLS_VERIFY_ALLOW_X509_V1_CA_CRT" \in flags
                                THEN @ \cup { chain.i - 1 } ELSE @ ]
              IN chain' =
                   IF r.ret = 0
                     THEN VerifyReturn(c1, c1.status \cup { "GNUTLS_CERT_INVALID" })
                     ELSE [ c1 EXCEPT !.i = @ - 1 ]
       ELSE chain' = VerifyReturn(chain, {})
  /\ VerifyFrame

InitVerify ==
  /\ conn = InitConn
  /\ sock = InitSock
  /\ notified = << >>
  /\ offered = {}
  /\ now = 0
  /\ daemon = [ connection_timeout |-> 0, notify_completed |-> FALSE ]
  /\ last = [ op |-> "none", type |-> -1, hs |-> "none", ret |-> MHD_YES ]
  /\ wire_in = << >>
  /\ read_buffer = << >>
  /\ request = NoRequest
  /\ response = << >>
  /\ keepalive = TRUE
  /\ out = << >>
  /\ hist = InitHist
  /\ parser = NotInUse
  /\ shared = NotInUse
  /\ stream = NotInUse
  /\ dmn = NotInUse
  /\ exec = NotInUse
  /\ rbuf = NotInUse
  /\ ext = NotInUse
  /\ mpi = NotInUse
  /\ \E null \in BOOLEAN, len \in 0..MaxChain, tcas \in 0..1,
        flags \in SUBSET VerifyFlags :
       \E revoked \in SUBSET (0..(len - 1)) :
         chain = InitChain(null, len, tcas, revoked, flags)

NextVerify ==
  \/ VerifyEntry
  \/ VerifyLast
  \/ VerifyPath

SpecVerify == InitVerify /\ [][NextVerify]_vars

\* The list of a finished call was there to verify.
VerifiedAList ==
  /\ chain.state = "DONE"
  /\ ~ chain.cert_list_null
  /\ chain.cert_list_length > 0

\* C24: MHD_gnutls_x509_crt_list_verify checks the supplied CRLs: if any
\* certificate of the chain has been revoked, the verification output
\* contains GNUTLS_CERT_REVOKED.
C24_RevokedIsReported ==
  (VerifiedAList /\ chain.revoked # {})
    => "GNUTLS_CERT_REVOKED" \in chain.verify

\* C25: the chain is reported as trusted (*verify == 0) only if the last
\* certificate was successfully verified against one of the trusted CAs and
\* every other certificate was successfully verified against its successor
\* in the chain, a step that ends with a negative result never counting as
\* successful; for a NULL or empty list the function returns
\* GNUTLS_E_NO_CERTIFICATE_FOUND.
C25_TrustedOnlyIfEveryStepVerified ==
  /\ (VerifiedAList /\ chain.ret = "0" /\ chain.verify = {})
       => /\ [ cert |-> chain.cert_list_length - 1, issuer |-> "CA",
               ret |-> 1 ] \in chain.checked
          /\ \A k \in 0..(chain.cert_list_length - 2) :
               [ cert |-> k, issuer |-> k + 1, ret |-> 1 ] \in chain.checked
  /\ ( /\ chain.state = "DONE"
       /\ chain.cert_list_null \/ chain.cert_list_length = 0 )
       => chain.ret = "GNUTLS_E_NO_CERTIFICATE_FOUND"

(***************************************************************************)
(* Part 6 (specifications SpecDaemon, SpecHandlers): a daemon from         *)
(* MHD_start_daemon to MHD_stop_daemon: its listener, its connection       *)
(* registry, the event loop in the three modes, MHD_get_fdset and MHD_run, *)
(* and the handler registry.  The daemon's source file is not among the    *)
(* sources; it is modelled from the declarations of microhttpd.h and the   *)
(* design of the daemon and its event loop.                                *)
(***************************************************************************)

\* Most connections in the registry at a time, and requests begun in all.
MaxDaemonConns == 2
MaxDaemonReqs == 2

\* The URI prefixes and access handlers an application registers.
Prefixes == { "/", "/a", "/a/b" }
Handlers == { "dh1", "dh2" }

\* A daemon as MHD_start_daemon returns it.
InitDaemon(mode, notify) ==
  [ state |-> "RUNNING",
    mode |-> mode,         \* the mode flag of the options
    notify |-> notify,     \* a per-request notifier is registered
    listener |-> TRUE,     \* the listening socket is open
    conns |-> {},          \* the connection registry
    inflight |-> [ c \in 1..MaxDaemonConns |-> 0 ],  \* request of a connection
    nreq |-> 0,            \* requests begun so far
    ended |-> << >>,       \* how each request ended, by request number
    log |-> << >>,         \* the notifier's calls: request and reason
    at_stop |-> {},        \* the requests in flight when stop was called
    fdset |-> {},          \* what the last MHD_get_fdset put into the sets
    handlers |-> << >>,    \* the handler registry, in order
    before |-> << >>,      \* the registry before the last (un)register call
    api |-> [ op |-> "start", arg |-> "none", ret |-> MHD_YES ],
    prev |-> [ op |-> "none", arg |-> "none", ret |-> MHD_YES ] ]
                           \* the last call of the API, and the one before

\* A request ends: the reason is kept and the notifier, when registered,
\* is called with it.
EndRequest(d, c, reason) ==
  IF d.inflight[c] = 0 THEN d
  ELSE [ d EXCEPT
           !.ended = Append(@, [ req |-> d.inflight[c], reason |-> reason ]),
           !.log = IF d.notify
                     THEN Append(@, [ req |-> d.inflight[c], reason |-> reason ])
                     ELSE @,
           !.inflight[c] = 0 ]

\* The listener is readable: up to one new connection is accepted.
AcceptOne(d) ==
  LET free == (1..MaxDaemonConns) \ d.conns
  IN IF d.listener /\ free # {}
       THEN [ d EXCEPT !.conns = @ \cup { CHOOSE c \in free :
                                            \A x \in free : c <= x } ]
       ELSE d

\* One connection in a sweep: nothing ready, its FSM advanced (a request
\* begins, or the request in flight is served), or a hard error.
AdvanceConn(d, c, how) ==
  IF c \notin d.conns \/ how = "none" THEN d
  ELSE IF how = "error"
    THEN [ EndRequest(d, c, "MHD_REQUEST_TERMINATED_WITH_ERROR")
             EXCEPT !.conns = @ \ {c} ]
  ELSE IF d.inflight[c] = 0
    THEN IF d.nreq < MaxDaemonReqs
           THEN [ d EXCEPT !.nreq = @ + 1, !.inflight[c] = d.nreq + 1 ]
           ELSE d
  ELSE [ d EXCEPT !.inflight[c] = 0 ]

RECURSIVE AdvanceAll(_, _, _)
AdvanceAll(d, c, how) ==
  IF c > MaxDaemonConns THEN d
  ELSE AdvanceAll(AdvanceConn(d, c, how[c]), c + 1, how)

\* What is ready in one sweep.
Readiness ==
  [ accept : BOOLEAN,
    how : [ 1..MaxDaemonConns -> { "none", "advance", "error" } ] ]

\* One non-blocking sweep of the event loop: every ready connection is
\* advanced, then up to one connection is accepted.
Sweep(d, rdy) ==
  LET d1 == AdvanceAll(d, 1, rdy.how)
  IN IF rdy.accept THEN AcceptOne(d1) ELSE d1

\* A daemon on which every call is taken for the right one.
AnyOptions(mode) == TRUE

\* The options MHD_get_fdset and MHD_run are for: the client-controlled
\* select method, neither thread flag set.
RightOptions(mode) == mode = 0

\* MHD_get_fdset: the listener and the connections are put into the sets.
MHD_get_fdset(d) ==
  IF RightOptions(d.mode)
    THEN [ d EXCEPT !.fdset = (IF d.listener THEN { 0 } ELSE {}) \cup d.conns,
                    !.api = [ op |-> "get_fdset", arg |-> "none", ret |-> MHD_YES ] ]
    ELSE [ d EXCEPT !.api = [ op |-> "get_fdset", arg |-> "none", ret |-> MHD_NO ] ]

\* MHD_run: one sweep.
MHD_run(d, rdy) ==
  IF RightOptions(d.mode)
    THEN [ Sweep(d, rdy) EXCEPT
             !.api = [ op |-> "run", arg |-> "none", ret |-> MHD_YES ] ]
    ELSE [ d EXCEPT !.api = [ op |-> "run", arg |-> "none", ret |-> MHD_NO ] ]

\* A shutdown that drops a connection without ending its request.
CloseSilently(d, c) ==
  [ d EXCEPT !.conns = @ \ {c}, !.inflight[c] = 0 ]

\* Shutdown of one connection: close, and the request in flight is
\* terminated with MHD_REQUEST_TERMINATED_DAEMON_SHUTDOWN.
CloseAtShutdown(d, c) ==
  [ EndRequest(d, c, "MHD_REQUEST_TERMINATED_DAEMON_SHUTDOWN")
      EXCEPT !.conns = @ \ {c} ]

DaemonFrame ==
  UNCHANGED << conn, sock, notified, offered, now, daemon, last, wire_in,
               read_buffer, request, response, keepalive, out, hist,
               parser, shared, stream, chain, exec, rbuf, ext, mpi >>

\* The client calls MHD_get_fdset.
DmnGetFdset ==
  /\ dmn.state = "RUNNING"
  /\ dmn' = MHD_get_fdset(dmn)
  /\ DaemonFrame

\* The client calls MHD_run.
DmnRun ==
  /\ dmn.state = "RUNNING"
  /\ \E rdy \in Readiness : dmn' = MHD_run(dmn, rdy)
  /\ DaemonFrame

\* The daemon's own thread (internal select) or its workers (thread per
\* connection) make a sweep.
DmnLoop ==
  /\ dmn.state = "RUNNING"
  /\ dmn.mode # 0
  /\ \E rdy \in Readiness : dmn' = Sweep(dmn, rdy)
  /\ DaemonFrame

\* MHD_stop_daemon is called: the loop is signalled, the listener closed.
DmnStopBegin ==
  /\ dmn.state = "RUNNING"
  /\ dmn' = [ dmn EXCEPT
                !.state = "STOPPING",
                !.listener = FALSE,
                !.at_stop = { dmn.inflight[c] : c \in dmn.conns } \ { 0 },
                !.api = [ op |-> "stop", arg |-> "none", ret |-> MHD_YES ] ]
  /\ DaemonFrame

\* MHD_stop_daemon closes one of the connections left.
DmnStopClose ==
  /\ dmn.state = "STOPPING"
  /\ \E c \in dmn.conns : dmn' = CloseAtShutdown(dmn, c)
  /\ DaemonFrame

\* MHD_stop_daemon returns.
DmnStopEnd ==
  /\ dmn.state = "STOPPING"
  /\ dmn.conns = {}
  /\ dmn' = [ dmn EXCEPT !.state = "STOPPED" ]
  /\ DaemonFrame

InitQuiet ==
  /\ conn = InitConn
  /\ sock = InitSock
  /\ notified = << >>
  /\ offered = {}
  /\ now = 0
  /\ daemon = [ connection_timeout |-> 0, notify_completed |-> FALSE ]
  /\ last = [ op |-> "none", type |-> -1, hs |-> "none", ret |-> MHD_YES ]
  /\ wire_in = << >>
  /\ read_buffer = << >>
  /\ request = NoRequest
  /\ response = << >>
  /\ keepalive = TRUE
  /\ out = << >>
  /\ hist = InitHist
  /\ parser = NotInUse
  /\ shared = NotInUse
  /\ stream = NotInUse
  /\ chain = NotInUse
  /\ exec = NotInUse
  /\ rbuf = NotInUse
  /\ ext = NotInUse
  /\ mpi = NotInUse

InitDaemonSpec ==
  /\ InitQuiet
  /\ \E mode \in DaemonModes, notify \in BOOLEAN :
       dmn = InitDaemon(mode, notify)

NextDaemon ==
  \/ DmnGetFdset
  \/ DmnRun
  \/ DmnLoop
  \/ DmnStopBegin
  \/ DmnStopClose
  \/ DmnStopEnd

SpecDaemon == InitDaemonSpec /\ [][NextDaemon]_vars

KnownNever(handlers, prefix) == FALSE

Known(handlers, prefix) ==
  \E i \in DOMAIN handlers : handlers[i].prefix = prefix

\* The registry without its entry for the prefix, the others in order.
Without(handlers, prefix) ==
  SelectSeq(handlers, LAMBDA e : e.prefix # prefix)

\* MHD_register_handler: MHD_NO if a handler for this exact prefix already
\* exists; otherwise the handler is added.
MHD_register_handler(d, prefix, dh) ==
  LET d1 == [ d EXCEPT !.prev = d.api, !.before = d.handlers ]
  IN IF Known(d.handlers, prefix)
       THEN [ d1 EXCEPT
                !.api = [ op |-> "register", arg |-> prefix, ret |-> MHD_NO ] ]
       ELSE [ d1 EXCEPT
                !.handlers = Append(@, [ prefix |-> prefix, dh |-> dh ]),
                !.api = [ op |-> "register", arg |-> prefix, ret |-> MHD_YES ] ]

\* MHD_unregister_handler: MHD_NO if a handler for this exact prefix is not
\* known; otherwise its entry is removed.
MHD_unregister_handler(d, prefix, dh) ==
  LET d1 == [ d EXCEPT !.prev = d.api, !.before = d.handlers ]
  IN IF ~ Known(d.handlers, prefix)
       THEN [ d1 EXCEPT
                !.api = [ op |-> "unregister", arg |-> prefix, ret |-> MHD_NO ] ]
       ELSE [ d1 EXCEPT
                !.handlers = Without(@, prefix),
                !.api = [ op |-> "unregister", arg |-> prefix, ret |-> MHD_YES ] ]

\* The application registers a handler.
DmnRegister ==
  /\ dmn.state = "RUNNING"
  /\ \E prefix \in Prefixes, dh \in Handlers :
       dmn' = MHD_register_handler(dmn, prefix, dh)
  /\ DaemonFrame

\* The application unregisters a handler.
DmnUnregister ==
  /\ dmn.state = "RUNNING"
  /\ \E prefix \in Prefixes, dh \in Handlers :
       dmn' = MHD_unregister_handler(dmn, prefix, dh)
  /\ DaemonFrame

InitHandlers ==
  /\ InitQuiet
  /\ dmn = InitDaemon(0, FALSE)

NextHandlers ==
  \/ DmnRegister
  \/ DmnUnregister

SpecHandlers == InitHandlers /\ [][NextHandlers]_vars

\* C23: MHD_register_handler returns MHD_NO and leaves the handler registry
\* unchanged when a handler for exactly that prefix is already registered;
\* MHD_unregister_handler returns MHD_NO and leaves the registry unchanged
\* when no handler for exactly that prefix is known; a successful register
\* followed by the unregister of the same prefix restores the registry
\* that was there before the two.
C23_RegistryDuplicateNotFoundRoundTrip ==
  [][ /\ DmnRegister =>
           IF Known(dmn.handlers, dmn'.api.arg)
             THEN dmn'.api.ret = MHD_NO /\ dmn'.handlers = dmn.handlers
             ELSE dmn'.api.ret = MHD_YES
      /\ DmnUnregister =>
           IF ~ Known(dmn.handlers, dmn'.api.arg)
             THEN dmn'.api.ret = MHD_NO /\ dmn'.handlers = dmn.handlers
             ELSE dmn'.api.ret = MHD_YES
      /\ ( /\ DmnUnregister
           /\ dmn.api.op = "register"
           /\ dmn.api.ret = MHD_YES
           /\ dmn'.api.arg = dmn.api.arg )
           => /\ dmn'.api.ret = MHD_YES
              /\ dmn'.handlers = dmn.before ]_vars

\* C23 witness: a handler was registered in a registry that held two
\* others and unregistered again, and the two are back as they were.
C23_Witness ==
  /\ dmn.state = "RUNNING"
  /\ dmn.prev.op = "register"
  /\ dmn.prev.ret = MHD_YES
  /\ dmn.api.op = "unregister"
  /\ dmn.api.arg = dmn.prev.arg
  /\ dmn.api.ret = MHD_YES
  /\ Len(dmn.handlers) = 2

(***************************************************************************)
(* Claims C31 to C33: the verification of a certificate list, continued    *)
(* (SpecVerify).                                                           *)
(***************************************************************************)

\* C31: if a certificate of the chain is not self-signed and is signed with
\* RSA-MD2 or RSA-MD5 while the flag that allows the algorithm is not set,
\* the status produced by MHD_gnutls_x509_crt_list_verify contains
\* GNUTLS_CERT_INSECURE_ALGORITHM and GNUTLS_CERT_INVALID: the chain is not
\* reported as trusted.
C31_InsecureAlgorithmReported ==
  (VerifiedAList /\ chain.insecure # {})
    => { "GNUTLS_CERT_INSECURE_ALGORITHM", "GNUTLS_CERT_INVALID" }
         \subseteq chain.verify

\* C32: when GNUTLS_VERIFY_ALLOW_ANY_X509_V1_CA_CRT is not set, every link
\* verification inside the supplied chain, in every turn of the loop and
\* for every chain length, runs with GNUTLS_VERIFY_ALLOW_X509_V1_CA_CRT
\* off, whether or not the caller passed that flag.
C32_V1FlagOffInsideChain ==
  ( /\ chain.state # "OFF"
    /\ "GNUTLS_VERIFY_ALLOW_ANY_X509_V1_CA_CRT" \notin chain.flags )
    => chain.v1_links = {}

\* C33: MHD__gnutls_verify_certificate2 returns only 0 or 1 for every
\* input, also when reading the issuer's version, extracting the signed
\* data or the signature, or checking the signature fails.
C33_VerifyReturnsZeroOrOne ==
  chain.state # "OFF" =>
    \A s \in chain.checked : s.ret \in { 0, 1 }

(***************************************************************************)
(* Claims C34 to C36: the secure handlers and the socket (SpecTimed, Spec) *)
(***************************************************************************)

\* C34: over any sequence of secure read, write and idle handler
\* invocations on one connection, notify_completed is invoked at most once:
\* connection_close_error is only reached while socket_fd # -1 and it sets
\* socket_fd to -1 (and state to CLOSED).
C34_NotifiedAtMostOnce ==
  /\ [](Len(notified) <= 1)
  /\ [][ notified' # notified
           => /\ conn.socket_fd # -1
              /\ conn'.socket_fd = -1
              /\ conn'.state = "CLOSED"
              /\ Len(notified') = Len(notified) + 1 ]_vars

\* C34, its case: the notifier has been called once and a handler has been
\* invoked on the connection after that.
C34_Witness ==
  /\ Len(notified) = 1
  /\ last.op = "read"
  /\ conn.socket_fd = -1
  /\ now > daemon.connection_timeout
  /\ daemon.connection_timeout # 0

\* C35: CLOSED is absorbing for a secure connection: once state is CLOSED no
\* later invocation of the read, write or idle handler changes it (no
\* handshake success resets it to INIT) and socket_fd stays -1; in every
\* reachable state, state = CLOSED implies socket_fd = -1.
C35_ClosedIsAbsorbing ==
  /\ [](conn.state = "CLOSED" => conn.socket_fd = -1)
  /\ [][ conn.state = "CLOSED"
           => /\ conn'.state = "CLOSED"
              /\ conn'.socket_fd = -1 ]_vars

\* C35, its case: the read handler has been invoked on a closed connection
\* while a handshake record was still pending on the wire.
C35_Witness ==
  /\ conn.state = "CLOSED"
  /\ last.op = "read"
  /\ sock.inq # << >>
  /\ Head(sock.inq).type = GNUTLS_HANDSHAKE

\* C36: no path of the secure handlers forgets an open socket: whenever
\* socket_fd is -1 (after a close-notify alert, a fatal alert, a failed
\* handshake, the handshake-failed state in the idle handler, an error
\* close) the descriptor has been shut down and closed.
C36_NoSocketForgotten ==
  conn.socket_fd = -1 => ~ sock.fd_open

(***************************************************************************)
(* Part 10 (specification SpecOprfi): the Opaque PRF Input extension as    *)
(* the server receives it (part_005, ext_oprfi.c).                         *)
(***************************************************************************)

MaxExt == 4        \* longest extension body, in bytes
MaxExtCalls == 2   \* extensions one session receives

\* The byte values the peer uses.
ExtBytes == { 0, 1, 2 }

\* The extension bodies the peer can send.
ExtData == UNION { [ 1..n -> ExtBytes ] : n \in 0..MaxExt }

\* No allocation: the NULL pointer.
NullOpaque == [ null |-> TRUE, bytes |-> << >> ]

\* security_parameters.extensions of a session as MHD_gtls_session_t is
\* initialised: nothing received yet; the application has registered an
\* OPRFI callback or has not.
InitSession(cb) ==
  [ oprfi_cb |-> cb, oprfi_client |-> NullOpaque, oprfi_client_len |-> 0 ]

\* DECR_LEN (len, x), gnutls_int.h:96: len -= x, and the enclosing function
\* returns GNUTLS_E_UNEXPECTED_PACKET_LENGTH when len has become negative.
DECR_LEN(len, x) == [ len |-> len - x, return |-> len - x < 0 ]

\* MHD_gtls_read_uint16: two bytes, the most significant first.
MHD_gtls_read_uint16(data) == (data[1] * 256 + data[2]) % 65536

\* A comparison that finds no mismatch.
LengthMismatchNever(len, data_size) == FALSE

\* if (len != data_size), line 53.
LengthMismatch(len, data_size) == len # data_size

\* memcpy (dest, data, len) after data += 2: len bytes from the third on.
\* The code copies only with len = data_size, inside the buffer; a byte
\* past the end of the buffer is written -1 here.
CopyAfterPrefix(data, len) ==
  [ i \in 1..len |-> IF 2 + i \in DOMAIN data THEN data[2 + i] ELSE -1 ]

\* oprfi_recv_server, lines 36-71: the session after the call and the
\* value returned; malloc_ok is whether MHD_gnutls_malloc (len) returns
\* memory.
oprfi_recv_server(session, data, malloc_ok) ==
  LET d == DECR_LEN(Len(data), 2)
      len == MHD_gtls_read_uint16(data)
  IN IF ~ session.oprfi_cb
       THEN [ session |-> session, ret |-> "0" ]
     ELSE IF d.return
       THEN [ session |-> session,
              ret |-> "GNUTLS_E_UNEXPECTED_PACKET_LENGTH" ]
     ELSE IF LengthMismatch(len, d.len)
       THEN [ session |-> session,
              ret |-> "GNUTLS_E_UNEXPECTED_PACKET_LENGTH" ]
     ELSE IF ~ malloc_ok
       THEN [ session |-> [ session EXCEPT !.oprfi_client_len = len,
                                           !.oprfi_client = NullOpaque ],
              ret |-> "GNUTLS_E_MEMORY_ERROR" ]
     ELSE [ session |->
              [ session EXCEPT
                  !.oprfi_client_len = len,
                  !.oprfi_client =
                    [ null |-> FALSE, bytes |-> CopyAfterPrefix(data, len) ] ],
            ret |-> "0" ]

\* MHD_gtls_oprfi_recv_params, lines 118-128: on the server (and in every
\* build without MHD_DEBUG_TLS) the call goes to oprfi_recv_server.
MHD_gtls_oprfi_recv_params(session, data, malloc_ok) ==
  oprfi_recv_server(session, data, malloc_ok)

ExtFrame ==
  UNCHANGED << conn, sock, notified, offered, now, daemon, last, wire_in,
               read_buffer, request, response, keepalive, out, hist,
               parser, shared, stream, dmn, chain, exec, rbuf, mpi >>

\* A hello message of the peer carries the extension with some body.
ExtArrive ==
  /\ ext.state = "IDLE"
  /\ ext.calls < MaxExtCalls
  /\ \E data \in ExtData :
       ext' = [ ext EXCEPT !.state = "CALLED", !.data = data ]
  /\ ExtFrame

\* The extension parser calls MHD_gtls_oprfi_recv_params on the body.
ExtRecv ==
  /\ ext.state = "CALLED"
  /\ \E malloc_ok \in BOOLEAN :
       LET r == MHD_gtls_oprfi_recv_params(ext.session, ext.data, malloc_ok)
       IN ext' = [ ext EXCEPT !.state = "IDLE", !.calls = @ + 1,
                              !.before = ext.session,
                              !.session = r.session, !.ret = r.ret ]
  /\ ExtFrame

\* The connection and the HTTP layer at rest, Parts 3 to 5 not run.
InitRest ==
  /\ conn = InitConn
  /\ sock = InitSock
  /\ notified = << >>
  /\ offered = {}
  /\ now = 0
  /\ daemon = [ connection_timeout |-> 0, notify_completed |-> FALSE ]
  /\ last = [ op |-> "none", type |-> -1, hs |-> "none", ret |-> MHD_YES ]
  /\ wire_in = << >>
  /\ read_buffer = << >>
  /\ request = NoRequest
  /\ response = << >>
  /\ keepalive = TRUE
  /\ out = << >>
  /\ hist = InitHist
  /\ parser = NotInUse
  /\ shared = NotInUse
  /\ stream = NotInUse

InitOprfi ==
  /\ InitRest
  /\ dmn = NotInUse
  /\ chain = NotInUse
  /\ exec = NotInUse
  /\ rbuf = NotInUse
  /\ mpi = NotInUse
  /\ \E cb \in BOOLEAN :
       ext = [ state |-> "IDLE", calls |-> 0, data |-> << >>,
               session |-> InitSession(cb), before |-> InitSession(cb),
               ret |-> "none" ]

NextOprfi ==
  \/ ExtArrive
  \/ ExtRecv

SpecOprfi == InitOprfi /\ [][NextOprfi]_vars

\* The body is a two-byte length followed by exactly that many bytes.
ExtWellFormed(data) ==
  /\ Len(data) >= 2
  /\ data[1] * 256 + data[2] = Len(data) - 2

\* C37: on the server, with an OPRFI callback registered, the extension is
\* accepted only when at least 2 bytes are present and the 2-byte length
\* prefix equals the number of bytes that follow; otherwise the call
\* returns GNUTLS_E_UNEXPECTED_PACKET_LENGTH and leaves oprfi_client and
\* oprfi_client_len unchanged.  On acceptance a copy of exactly that many
\* bytes is stored; with no callback registered the call returns 0 and
\* stores nothing.
C37_OprfiAcceptsOnlyWellFormed ==
  (ext.state = "IDLE" /\ ext.calls > 0) =>
    /\ (ext.session.oprfi_cb /\ ~ ExtWellFormed(ext.data))
         => /\ ext.ret = "GNUTLS_E_UNEXPECTED_PACKET_LENGTH"
            /\ ext.session = ext.before
    /\ (ext.session.oprfi_cb /\ ext.ret = "0")
         => /\ ExtWellFormed(ext.data)
            /\ ~ ext.session.oprfi_client.null
            /\ ext.session.oprfi_client.bytes
                 = SubSeq(ext.data, 3, Len(ext.data))
            /\ ext.session.oprfi_client_len = Len(ext.data) - 2
    /\ ~ ext.session.oprfi_cb
         => /\ ext.ret = "0"
            /\ ext.session = ext.before

\* C37, its case: a session that has stored one extension receives a
\* malformed one of at least two bytes and keeps what it had.
C37_Witness ==
  /\ ext.state = "IDLE"
  /\ ext.calls = 2
  /\ ext.ret = "GNUTLS_E_UNEXPECTED_PACKET_LENGTH"
  /\ Len(ext.data) >= 2
  /\ ~ ext.before.oprfi_client.null
  /\ ext.before.oprfi_client_len > 0

(***************************************************************************)
(* Part 11 (specification SpecMpi): reading the public-key parameters of   *)
(* a certificate (part_003, x509 mpi.c) and releasing them after the       *)
(* signature check (part_004, MHD__gnutls_x509_verify_signature).          *)
(***************************************************************************)

\* x509.h:770-772
DSA_PUBLIC_PARAMS == 4
RSA_PUBLIC_PARAMS == 2

\* The caller's array in MHD__gnutls_x509_verify_signature, line 626; its
\* size is that of the largest public key, DSA_PUBLIC_PARAMS.
MAX_PUBLIC_PARAMS_SIZE == DSA_PUBLIC_PARAMS

\* What decides the outcome of a call: whether MHD__asn1_create_element and
\* MHD__asn1_der_decoding succeed, whether each MHD__gnutls_x509_read_int
\* does, and for the signature check whether the subjectPublicKey can be
\* read, the issuer's key algorithm, and whether the signature matches.
MpiFacts(fn) ==
  [ create : BOOLEAN, decode : BOOLEAN,
    ints : [ 1..3 -> BOOLEAN ],
    read_value : IF fn = "sig" THEN BOOLEAN ELSE { TRUE },
    pk : IF fn = "sig" THEN { "MHD_GNUTLS_PK_RSA", "MHD_GNUTLS_PK_UNKNOWN" }
                       ELSE { "MHD_GNUTLS_PK_RSA" },
    sig_ok : IF fn = "sig" THEN BOOLEAN ELSE { TRUE } ]

\* The memory a call works on: params, the caller's array of mpi_t (-1 an
\* entry never written, 0 NULL, otherwise the MPI it points to); live, the
\* MPIs allocated and not released; next, the next MPI to allocate; spk,
\* whether the temporary ASN.1 structure exists; ub, whether an entry never
\* written was released.
InitHeap ==
  [ params |-> [ k \in 0..(MAX_PUBLIC_PARAMS_SIZE - 1) |-> -1 ],
    live |-> {}, next |-> 1, spk |-> FALSE, ub |-> FALSE ]

\* MHD__gnutls_x509_read_int (spk, name, &params[k]): on success a new MPI
\* is stored in params[k]; on failure nothing is stored.
MHD__gnutls_x509_read_int(h, k, ok) ==
  IF ok
    THEN [ h EXCEPT !.params[k] = h.next, !.live = @ \cup { h.next },
                    !.next = @ + 1 ]
    ELSE h

\* A release that releases nothing.
MpiReleaseNothing(h, k) == h

\* MHD_gtls_mpi_release (&params[k]): the MPI is freed and the entry set to
\* NULL; NULL is left alone.
MHD_gtls_mpi_release(h, k) ==
  IF h.params[k] = -1
    THEN [ h EXCEPT !.ub = TRUE ]
    ELSE [ h EXCEPT !.live = @ \ { h.params[k] }, !.params[k] = 0 ]

\* MHD__asn1_delete_structure (&spk)
MHD__asn1_delete_structure(h) == [ h EXCEPT !.spk = FALSE ]

\* MHD__gnutls_x509_read_rsa_params, part_003:40-84.
MHD__gnutls_x509_read_rsa_params(h, f) ==
  IF ~ f.create
    THEN [ h |-> h, ret |-> "MHD_gtls_asn2err" ]
  ELSE LET h1 == [ h EXCEPT !.spk = TRUE ]
       IN IF ~ f.decode
            THEN [ h |-> MHD__asn1_delete_structure(h1),
                   ret |-> "MHD_gtls_asn2err" ]
          ELSE IF ~ f.ints[1]
            THEN [ h |-> MHD__asn1_delete_structure(
                           MHD__gnutls_x509_read_int(h1, 0, FALSE)),
                   ret |-> "GNUTLS_E_ASN1_GENERIC_ERROR" ]
          ELSE LET h2 == MHD__gnutls_x509_read_int(h1, 0, TRUE)
               IN IF ~ f.ints[2]
                    THEN [ h |-> MHD__asn1_delete_structure(
                                   MHD_gtls_mpi_release(
                                     MHD__gnutls_x509_read_int(h2, 1, FALSE),
                                     0)),
                           ret |-> "GNUTLS_E_ASN1_GENERIC_ERROR" ]
                    ELSE [ h |-> MHD__asn1_delete_structure(
                                   MHD__gnutls_x509_read_int(h2, 1, TRUE)),
                           ret |-> "0" ]

\* MHD__gnutls_x509_read_dsa_params, part_003:90-152.
MHD__gnutls_x509_read_dsa_params(h, f) ==
  IF ~ f.create
    THEN [ h |-> h, ret |-> "MHD_gtls_asn2err" ]
  ELSE LET h1 == [ h EXCEPT !.spk = TRUE ]
       IN IF ~ f.decode
            THEN [ h |-> MHD__asn1_delete_structure(h1),
                   ret |-> "MHD_gtls_asn2err" ]
          ELSE IF ~ f.ints[1]
            THEN [ h |-> MHD__asn1_delete_structure(h1),
                   ret |-> "GNUTLS_E_ASN1_GENERIC_ERROR" ]
          ELSE LET h2 == MHD__gnutls_x509_read_int(h1, 0, TRUE)
               IN IF ~ f.ints[2]
                    THEN [ h |-> MHD_gtls_mpi_release(
                                   MHD__asn1_delete_structure(h2), 0),
                           ret |-> "GNUTLS_E_ASN1_GENERIC_ERROR" ]
                  ELSE LET h3 == MHD__gnutls_x509_read_int(h2, 1, TRUE)
                       IN IF ~ f.ints[3]
                            THEN [ h |-> MHD_gtls_mpi_release(
                                           MHD_gtls_mpi_release(
                                             MHD__asn1_delete_structure(h3),
                                             0),
                                           1),
                                   ret |-> "GNUTLS_E_ASN1_GENERIC_ERROR" ]
                            ELSE [ h |-> MHD__asn1_delete_structure(
                                           MHD__gnutls_x509_read_int(
                                             h3, 2, TRUE)),
                                   ret |-> "0" ]

\* MHD__gnutls_x509_crt_get_mpis, part_003:209-269: the memory, the value
\* returned and *params_size after the call.
MHD__gnutls_x509_crt_get_mpis(h, f, params_size) ==
  IF ~ f.read_value
    THEN [ h |-> h, ret |-> "MHD__gnutls_x509_read_value",
           params_size |-> params_size ]
  ELSE IF f.pk = "MHD_GNUTLS_PK_RSA"
    THEN IF params_size < RSA_PUBLIC_PARAMS
           THEN [ h |-> h, ret |-> "GNUTLS_E_INTERNAL_ERROR",
                  params_size |-> params_size ]
           ELSE LET r == MHD__gnutls_x509_read_rsa_params(h, f)
                IN IF r.ret # "0"
                     THEN [ h |-> r.h, ret |-> r.ret,
                            params_size |-> params_size ]
                     ELSE [ h |-> r.h, ret |-> "0",
                            params_size |-> RSA_PUBLIC_PARAMS ]
  ELSE [ h |-> h, ret |-> "GNUTLS_E_X509_CERTIFICATE_ERROR",
         params_size |-> params_size ]

\* verify_sig, part_004:587-613.
verify_sig(pk, sig_ok) ==
  IF pk = "MHD_GNUTLS_PK_RSA"
    THEN IF sig_ok THEN "1" ELSE "0"
    ELSE "GNUTLS_E_INTERNAL_ERROR"

\* The loop of part_004:652-655: MHD_gtls_mpi_release on entries i to
\* issuer_params_size - 1.
RECURSIVE ReleaseFrom(_, _, _)
ReleaseFrom(h, i, issuer_params_size) ==
  IF i < issuer_params_size
    THEN ReleaseFrom(MHD_gtls_mpi_release(h, i), i + 1, issuer_params_size)
    ELSE h

\* MHD__gnutls_x509_verify_signature, part_004:621-658.
MHD__gnutls_x509_verify_signature(h, f) ==
  LET g == MHD__gnutls_x509_crt_get_mpis(h, f, MAX_PUBLIC_PARAMS_SIZE)
  IN IF g.ret # "0"
       THEN [ h |-> g.h, ret |-> g.ret ]
       ELSE [ h |-> ReleaseFrom(g.h, 0, g.params_size),
              ret |-> verify_sig(f.pk, f.sig_ok) ]

MpiFrame ==
  UNCHANGED << conn, sock, notified, offered, now, daemon, last, wire_in,
               read_buffer, request, response, keepalive, out, hist,
               parser, shared, stream, dmn, chain, exec, rbuf, ext >>

MpiReturn(r) ==
  mpi' = [ mpi EXCEPT !.state = "DONE", !.h = r.h, !.ret = r.ret ]

\* A caller reads the parameters of an RSA key.
MpiReadRsa ==
  /\ mpi.state = "CALLED"
  /\ mpi.fn = "rsa"
  /\ MpiReturn(MHD__gnutls_x509_read_rsa_params(mpi.h, mpi.f))
  /\ MpiFrame

\* A caller reads the parameters of a DSA key.
MpiReadDsa ==
  /\ mpi.state = "CALLED"
  /\ mpi.fn = "dsa"
  /\ MpiReturn(MHD__gnutls_x509_read_dsa_params(mpi.h, mpi.f))
  /\ MpiFrame

\* The verification of a certificate checks a signature with its issuer.
MpiVerifySignature ==
  /\ mpi.state = "CALLED"
  /\ mpi.fn = "sig"
  /\ MpiReturn(MHD__gnutls_x509_verify_signature(mpi.h, mpi.f))
  /\ MpiFrame

InitMpi ==
  /\ InitRest
  /\ dmn = NotInUse
  /\ chain = NotInUse
  /\ exec = NotInUse
  /\ rbuf = NotInUse
  /\ ext = NotInUse
  /\ \E fn \in { "rsa", "dsa", "sig" } :
       \E f \in MpiFacts(fn) :
         /\ (fn # "dsa" => f.ints[3])
         /\ mpi = [ state |-> "CALLED", fn |-> fn, f |-> f, h |-> InitHeap,
                    ret |-> "none" ]

NextMpi ==
  \/ MpiReadRsa
  \/ MpiReadDsa
  \/ MpiVerifySignature

SpecMpi == InitMpi /\ [][NextMpi]_vars

\* Entries 0 to n - 1 of params hold n different MPIs, and these are all
\* the MPIs there are.
ParamsSet(h, n) ==
  /\ \A k \in 0..(n - 1) : h.params[k] \in h.live
  /\ Cardinality({ h.params[k] : k \in 0..(n - 1) }) = n
  /\ Cardinality(h.live) = n

\* C38: MHD__gnutls_x509_read_rsa_params and MHD__gnutls_x509_read_dsa_params
\* leave no allocation behind on failure: on every failing return each MPI
\* already stored in params has been released and the temporary ASN.1
\* structure deleted; on success they return 0 with all 2 (RSA) or 3 (DSA)
\* entries set; MHD__gnutls_x509_verify_signature releases every MPI
\* obtained from the issuer on each return path.
C38_NoMpiLeftBehind ==
  mpi.state = "DONE" =>
    /\ ~ mpi.h.spk
    /\ ~ mpi.h.ub
    /\ (mpi.fn \in { "rsa", "dsa" } /\ mpi.ret # "0") => mpi.h.live = {}
    /\ (mpi.fn = "rsa" /\ mpi.ret = "0") => ParamsSet(mpi.h, 2)
    /\ (mpi.fn = "dsa" /\ mpi.ret = "0") => ParamsSet(mpi.h, 3)
    /\ mpi.fn = "sig" => mpi.h.live = {}

\* C38, its case: reading the DSA parameters has failed on g after p and q
\* were stored.
C38_Witness ==
  /\ mpi.state = "DONE"
  /\ mpi.fn = "dsa"
  /\ mpi.ret = "GNUTLS_E_ASN1_GENERIC_ERROR"
  /\ mpi.f.ints[1] /\ mpi.f.ints[2] /\ ~ mpi.f.ints[3]
  /\ mpi.h.next = 3

====
